---- MODULE Spec2Model ----
(***************************************************************************)
(* Identity resolution and cross-registry aggregation of agent4NYC.        *)
(*                                                                         *)
(* ComprehensivePropertyComplianceSystem.process_property                  *)
(*   (comprehensive_property_compliance.py) is modelled step by step:      *)
(*   primary GeoSearch lookup, HPD fallback, the six gather_* searchers,   *)
(*   record assembly.  Every call of NYCOpenDataClient.get_data is         *)
(*   appended to the call log `calls`, as a mocked registry client would   *)
(*   count it.                                                             *)
(*                                                                         *)
(* NYCOpenDataClient.get_data (nyc_opendata_client.py) returns a pandas    *)
(* DataFrame on success, None on a requests error, and raises ValueError   *)
(* for a dataset key that is not in its dataset table.  Values are kept    *)
(* with their Python kind ("list", "frame", "none") because the callers    *)
(* apply list/dict operations to them.                                     *)
(***************************************************************************)
EXTENDS Integers, Sequences, FiniteSets, TLC

VARIABLES pc, address, identifiers, compliance_data, calls, invoked, record,
          property_info, fetch

vars == <<pc, address, identifiers, compliance_data, calls, invoked, record,
          property_info, fetch>>

----------------------------------------------------------------------------
(* Bounds *)

\* largest number of rows one registry response carries in the model
MaxRows == 1

----------------------------------------------------------------------------
(* Python values *)

\* None for string-valued fields
NONE == "None"
\* None for digit-string fields (bbl, block, lot), which are sequences of digits
NoneD == <<-1>>

\* truthiness of an Optional[str]
Truthy(s) == s # NONE /\ s # ""
\* truthiness of an Optional[str] held as a digit sequence
TruthyD(d) == d # NoneD /\ Len(d) > 0

\* the list literal [] that initialises every slot of compliance_data
EmptyList == [kind |-> "list", rows |-> <<>>]
\* the None that get_data returns on a requests error
NoneResp == [kind |-> "none", rows |-> <<>>]

\* the locals of a paginated or retried fetch, when none is running
NoFetch == [op |-> "none"]
\* pd.DataFrame(data) / pd.DataFrame()
DataFrame(rows) == [kind |-> "frame", rows |-> rows]

\* outcome of the HTTP round trip: RequestError, or the number of rows returned
RequestError == -1
NetOutcomes == RequestError .. MaxRows

\* the rows of a response: row i of the answer to query q
Rows(q, n) == [i \in 1..n |-> [q |-> q, i |-> i]]

\* self.datasets of NYCOpenDataClient
datasets ==
  {"boiler_inspections", "elevator_inspections", "dob_violations",
   "hpd_violations", "hpd_registrations", "cooling_tower_registrations",
   "cooling_tower_inspections", "complaints_311", "building_complaints",
   "fire_safety_inspections", "fdny_violations"}

\* NYCOpenDataClient.get_data: what the caller gets back
get_data(dataset_key, q, net) ==
  IF dataset_key \notin datasets
    THEN [raised |-> TRUE, val |-> NoneResp]
    ELSE IF net = RequestError
      THEN [raised |-> FALSE, val |-> NoneResp]
      ELSE [raised |-> FALSE, val |-> DataFrame(Rows(q, net))]

\* how a get_data call ended, for the call log
OutcomeOf(r) ==
  IF r.raised THEN "raise"
  ELSE IF r.val.kind = "none" THEN "none"
  ELSE IF Len(r.val.rows) = 0 THEN "empty" ELSE "rows"

\* `data is not None and len(data) > 0`
HasRows(v) == v.kind # "none" /\ Len(v.rows) > 0

\* bool(data): a list is true when non-empty; a DataFrame raises ValueError
BoolRaises(v) == v.kind = "frame"

\* `for v in data: v.get(...)` / `item.items()`: iterating a DataFrame yields
\* its column labels (str), on which .get / .items raise AttributeError
IterGetRaises(v) == v.kind = "frame" /\ Len(v.rows) > 0

----------------------------------------------------------------------------
(* PropertyIdentifiers *)

NoIdentifiers ==
  [found |-> FALSE, address |-> <<>>, bin |-> NONE, bbl |-> NoneD,
   borough |-> NONE, block |-> NoneD, lot |-> NoneD, zip_code |-> NONE,
   source |-> "none"]

\* str.lstrip('0') on a digit sequence
RECURSIVE lstrip0(_)
lstrip0(d) == IF Len(d) > 0 /\ Head(d) = 0 THEN lstrip0(Tail(d)) ELSE d

\* bbl[1:6] and bbl[6:]
Slice(d, from, to) == SubSeq(d, from + 1, IF to > Len(d) THEN Len(d) ELSE to)

\* borough_map.get(borough_name, borough_name)
borough_map(b) ==
  CASE b = "Manhattan" -> "MANHATTAN"
    [] b = "Brooklyn" -> "BROOKLYN"
    [] b = "Queens" -> "QUEENS"
    [] b = "Bronx" -> "BRONX"
    [] b = "Staten Island" -> "STATEN ISLAND"
    [] OTHER -> b

\* address.split(' '): "" splits into [''], so there is always one part
NumParts(addr) == IF Len(addr) = 0 THEN 1 ELSE Len(addr)

\* the GeoSearch features the model draws from: properties of features[0]
Feature(hn, street, boro, pbin, pbbl) ==
  [housenumber |-> hn, street |-> street, borough |-> boro, pbin |-> pbin,
   pbbl |-> pbbl, postalcode |-> "10001"]

GeoFeatures ==
  { Feature("123", <<"PARK", "AVE">>, "Manhattan", "1000001", <<1,0,0,1,2,3,0,0,4,5>>),
    Feature("123", <<"PARK", "AVE">>, "Manhattan", NONE, <<1,0,0,1,2,3,0,0,4,5>>),
    Feature("123", <<"PARK", "AVE">>, "Manhattan", "1000001", <<1,0,0,1,2,3,0,0,0,0>>),
    Feature("", <<"PARK", "AVE">>, NONE, NONE, <<1,0,0,1,2,3,0,0,4,5>>),
    Feature("", <<"BROADWAY">>, "Manhattan", "1000001", NoneD),
    Feature("", <<"BROADWAY">>, NONE, NONE, <<1,0,0,1,2>>) }

\* NYCPlanningGeoSearchClient.get_property_identifiers on features[0]
geo_get_property_identifiers(p) ==
  LET long == TruthyD(p.pbbl) /\ Len(p.pbbl) >= 10 IN
  [found |-> TRUE,
   address |-> (IF p.housenumber = "" THEN <<>> ELSE <<p.housenumber>>) \o p.street,
   bin |-> p.pbin,
   bbl |-> p.pbbl,
   borough |-> borough_map(p.borough),
   block |-> IF long THEN lstrip0(Slice(p.pbbl, 1, 6)) ELSE NoneD,
   lot |-> IF long THEN lstrip0(Slice(p.pbbl, 6, Len(p.pbbl))) ELSE NoneD,
   zip_code |-> p.postalcode,
   source |-> "geosearch"]

----------------------------------------------------------------------------
(* Call log *)

\* one get_data call: the caller, the dataset key, the caller's strategy (its
\* position k in the caller and its kind), the fields of the where clause, the
\* identifiers the filter was built from, how the call ended and its value
Call(by, k, dataset, strat, fields, ids, r) ==
  [by |-> by, k |-> k, dataset |-> dataset, strat |-> strat, fields |-> fields,
   ids |-> ids, out |-> OutcomeOf(r), val |-> r.val]

----------------------------------------------------------------------------
(* Category searchers: gather_* of ComprehensivePropertyComplianceSystem *)

\* One strategy of a searcher: whether its `if` guard holds for the
\* identifiers, the fields its where clause filters on, and whether the call
\* sits in an inner try/except that continues with the next pattern.
Strategy(strat, elig, fields, inner) ==
  [strat |-> strat, elig |-> elig, fields |-> fields, inner |-> inner]

\* run_strategies without the `return` after a hit: the rows are stored and
\* the remaining strategies are still queried
RECURSIVE run_strategies_no_return(_, _, _, _, _)
run_strategies_no_return(by, ds, S, ids, k) ==
  IF k > Len(S) THEN { [calls |-> <<>>, data |-> EmptyList] }
  ELSE IF ~S[k].elig THEN run_strategies_no_return(by, ds, S, ids, k + 1)
  ELSE UNION {
    LET r == get_data(ds, <<by, k>>, net)
        c == Call(by, k, ds, S[k].strat, S[k].fields, ids, r)
        rest == { [calls |-> <<c>> \o x.calls,
                   data |-> IF HasRows(r.val) /\ x.data = EmptyList
                              THEN r.val ELSE x.data] :
                    x \in run_strategies_no_return(by, ds, S, ids, k + 1) }
    IN IF r.raised /\ ~S[k].inner
         THEN { [calls |-> <<c>>, data |-> EmptyList] }
         ELSE rest
    : net \in NetOutcomes }

\* The body shared by every gather_*: inside one try block, for each strategy
\* in source order whose guard holds, call get_data; when the result is not
\* None and has rows, store it in the category slot and return; otherwise fall
\* through to the next strategy.  An exception leaves the try block (the
\* handler prints and the function ends) unless the call is in an inner try.
\* The value is the set of ways the searcher can end from strategy k on, one
\* for each way the HTTP round trips of its calls can end: the calls it made
\* and the value it stored (EmptyList: the slot keeps its initial []).
RECURSIVE run_strategies(_, _, _, _, _)
run_strategies(by, ds, S, ids, k) ==
  IF k > Len(S) THEN { [calls |-> <<>>, data |-> EmptyList] }
  ELSE IF ~S[k].elig THEN run_strategies(by, ds, S, ids, k + 1)
  ELSE UNION {
    LET r == get_data(ds, <<by, k>>, net)
        c == Call(by, k, ds, S[k].strat, S[k].fields, ids, r)
        rest == { [calls |-> <<c>> \o x.calls, data |-> x.data] :
                    x \in run_strategies(by, ds, S, ids, k + 1) }
    IN IF r.raised
         THEN IF S[k].inner THEN rest
              ELSE { [calls |-> <<c>>, data |-> EmptyList] }
         ELSE IF HasRows(r.val)
                THEN { [calls |-> <<c>>, data |-> r.val] }
                ELSE rest
    : net \in NetOutcomes }

\* hpd_strategies with the block/lot search placed before the BIN search
hpd_strategies_swapped(ids) ==
  << Strategy("block_lot",
              Truthy(ids.borough) /\ TruthyD(ids.block) /\ TruthyD(ids.lot),
              {"boroid", "block", "lot"}, FALSE),
     Strategy("bin", Truthy(ids.bin), {"buildingid"}, FALSE),
     Strategy("address", NumParts(ids.address) >= 2,
              {"housenumber", "streetname"}, FALSE) >>

\* gather_hpd_violations: BIN, then boro/block/lot, then address
hpd_strategies(ids) ==
  << Strategy("bin", Truthy(ids.bin), {"buildingid"}, FALSE),
     Strategy("block_lot",
              Truthy(ids.borough) /\ TruthyD(ids.block) /\ TruthyD(ids.lot),
              {"boroid", "block", "lot"}, FALSE),
     Strategy("address", NumParts(ids.address) >= 2,
              {"housenumber", "streetname"}, FALSE) >>

\* gather_dob_violations: BIN, then boro/block/lot, then address
dob_strategies(ids) ==
  << Strategy("bin", Truthy(ids.bin), {"bin"}, FALSE),
     Strategy("block_lot",
              Truthy(ids.borough) /\ TruthyD(ids.block) /\ TruthyD(ids.lot),
              {"boro", "block", "lot"}, FALSE),
     Strategy("address", NumParts(ids.address) >= 2,
              {"house_number", "street"}, FALSE) >>

\* gather_elevator_data: BIN, then block/lot, then the address with three
\* street patterns (as is, AVENUE->AVE, AVE->AVENUE), each in its own try
elevator_strategies(ids) ==
  << Strategy("bin", Truthy(ids.bin), {"bin"}, FALSE),
     Strategy("block_lot", TruthyD(ids.block) /\ TruthyD(ids.lot),
              {"block", "lot"}, FALSE),
     Strategy("address", NumParts(ids.address) >= 2,
              {"house_number", "street_name"}, TRUE),
     Strategy("address", NumParts(ids.address) >= 2,
              {"house_number", "street_name"}, TRUE),
     Strategy("address", NumParts(ids.address) >= 2,
              {"house_number", "street_name"}, TRUE) >>

\* gather_boiler_data: BIN only
boiler_strategies(ids) ==
  << Strategy("bin", Truthy(ids.bin), {"bin_number"}, FALSE) >>

\* gather_certificate_of_occupancy: BIN, then block/lot
coo_strategies(ids) ==
  << Strategy("bin", Truthy(ids.bin), {"bin"}, FALSE),
     Strategy("block_lot", TruthyD(ids.block) /\ TruthyD(ids.lot),
              {"block", "lot"}, FALSE) >>

\* gather_electrical_permits: BIN, then borough/block (the guard and the
\* filter leave the lot out)
electrical_strategies(ids) ==
  << Strategy("bin", Truthy(ids.bin), {"bin"}, FALSE),
     Strategy("block_lot", Truthy(ids.borough) /\ TruthyD(ids.block),
              {"borough", "block"}, FALSE) >>

\* the searchers in the order gather_comprehensive_compliance_data awaits them
Searchers ==
  << "gather_hpd_violations", "gather_dob_violations", "gather_elevator_data",
     "gather_boiler_data", "gather_certificate_of_occupancy",
     "gather_electrical_permits" >>

IsSearcher(name) == \E i \in 1..Len(Searchers) : Searchers[i] = name

\* the key of compliance_data a searcher writes, and the dataset it queries
SlotOf(by) ==
  CASE by = "gather_hpd_violations" -> "hpd_violations"
    [] by = "gather_dob_violations" -> "dob_violations"
    [] by = "gather_elevator_data" -> "elevator_inspections"
    [] by = "gather_boiler_data" -> "boiler_inspections"
    [] by = "gather_certificate_of_occupancy" -> "certificate_of_occupancy"
    [] by = "gather_electrical_permits" -> "electrical_permits"

StrategiesOf(by, ids) ==
  CASE by = "gather_hpd_violations" -> hpd_strategies(ids)
    [] by = "gather_dob_violations" -> dob_strategies(ids)
    [] by = "gather_elevator_data" -> elevator_strategies(ids)
    [] by = "gather_boiler_data" -> boiler_strategies(ids)
    [] by = "gather_certificate_of_occupancy" -> coo_strategies(ids)
    [] by = "gather_electrical_permits" -> electrical_strategies(ids)

Slots == { SlotOf(Searchers[i]) : i \in 1..Len(Searchers) }

\* one searcher, run against the identifiers, as a step of the pipeline
Gather(by, next) ==
  /\ pc = by
  /\ \E res \in run_strategies(by, SlotOf(by), StrategiesOf(by, identifiers),
                               identifiers, 1) :
       /\ calls' = calls \o res.calls
       /\ compliance_data' =
            IF res.data = EmptyList THEN compliance_data
            ELSE [compliance_data EXCEPT ![SlotOf(by)] = res.data]
  /\ invoked' = Append(invoked, by)
  /\ pc' = next
  /\ UNCHANGED <<fetch, property_info, address, identifiers, record>>

gather_hpd_violations == Gather("gather_hpd_violations", "gather_dob_violations")
gather_dob_violations == Gather("gather_dob_violations", "gather_elevator_data")
gather_elevator_data == Gather("gather_elevator_data", "gather_boiler_data")
gather_boiler_data == Gather("gather_boiler_data", "gather_certificate_of_occupancy")
\* gather_certificate_of_occupancy without its try/except: the ValueError of
\* get_data leaves gather_comprehensive_compliance_data and process_property
gather_certificate_of_occupancy_uncaught ==
  /\ pc = "gather_certificate_of_occupancy"
  /\ \E res \in run_strategies("gather_certificate_of_occupancy",
                               "certificate_of_occupancy",
                               coo_strategies(identifiers), identifiers, 1) :
       /\ calls' = calls \o res.calls
       /\ pc' = IF \E i \in 1..Len(res.calls) : res.calls[i].out = "raise"
                  THEN "raised" ELSE "gather_electrical_permits"
       /\ compliance_data' =
            IF res.data = EmptyList THEN compliance_data
            ELSE [compliance_data EXCEPT ![SlotOf("gather_certificate_of_occupancy")] = res.data]
  /\ invoked' = Append(invoked, "gather_certificate_of_occupancy")
  /\ UNCHANGED <<fetch, property_info, address, identifiers, record>>

gather_certificate_of_occupancy ==
  Gather("gather_certificate_of_occupancy", "gather_electrical_permits")
gather_electrical_permits ==
  Gather("gather_electrical_permits", "create_compliance_record")

----------------------------------------------------------------------------
(* Identity resolution *)

\* the addresses a request can carry, as space-separated tokens
Addresses == { <<"123", "PARK", "AVE">>, <<"123", "PARK", "AVE", "10001">>,
               <<"BROADWAY">> }

\* re.search(r'\b(\d{5})\b', ...): the five-digit tokens of the model
IsZipToken(t) == t \in {"10001"}

\* dict.get(key) on a row
RowGet(row, key) == IF key \in DOMAIN row THEN row[key] ELSE NONE

\* address_clean with the ZIP code removed, split on ' '
fallback_address_parts(addr) == SelectSeq(addr, LAMBDA t : ~IsZipToken(t))

\* whether zip_match found a ZIP code
fallback_has_zip(addr) == \E i \in 1..Len(addr) : IsZipToken(addr[i])

\* PropertyIdentifiers built from data[0] of the HPD fallback answer
hpd_row_identifiers(match) ==
  [found |-> TRUE,
   address |-> <<RowGet(match, "housenumber"), RowGet(match, "streetname")>>,
   bin |-> RowGet(match, "buildingid"),
   bbl |-> <<RowGet(match, "boro"), RowGet(match, "block"), RowGet(match, "lot")>>,
   borough |-> RowGet(match, "boro"),
   block |-> RowGet(match, "block"),
   lot |-> RowGet(match, "lot"),
   zip_code |-> RowGet(match, "zip"),
   source |-> "hpd_fallback"]

\* fallback_property_search: one query on hpd_violations with limit=1; when
\* the answer has rows, `match = data[0] if data else {}` is evaluated, which
\* raises on a DataFrame and lands in `except Exception: return None`
fallback_property_search(addr, net) ==
  LET r == get_data("hpd_violations", <<"fallback_property_search", 1>>, net)
      c == Call("fallback_property_search", 1, "hpd_violations", "address",
                {"housenumber", "streetname"}
                  \cup (IF fallback_has_zip(addr) THEN {"zip"} ELSE {}),
                NoIdentifiers, r)
  IN [calls |-> <<c>>,
      ids |-> IF r.raised THEN NoIdentifiers
              ELSE IF HasRows(r.val)
                THEN IF BoolRaises(r.val) THEN NoIdentifiers
                     ELSE hpd_row_identifiers(r.val.rows[1])
                ELSE NoIdentifiers]

\* primary_lookup that hands over to the fallback although GeoSearch answered
primary_lookup_always_falls_back ==
  /\ pc = "get_property_identifiers"
  /\ \/ identifiers' = NoIdentifiers
     \/ \E p \in GeoFeatures : identifiers' = geo_get_property_identifiers(p)
  /\ pc' = "fallback_property_search"
  /\ invoked' = Append(invoked, "geoclient.get_property_identifiers")
  /\ UNCHANGED <<fetch, property_info, address, compliance_data, calls, record>>

\* get_property_identifiers, first half: the GeoSearch lookup.  It returns
\* None when the request fails or has no features, else the identifiers of
\* features[0]; only on None does the fallback run.
primary_lookup ==
  /\ pc = "get_property_identifiers"
  /\ \/ /\ identifiers' = NoIdentifiers
        /\ pc' = "fallback_property_search"
     \/ \E p \in GeoFeatures :
          /\ identifiers' = geo_get_property_identifiers(p)
          /\ pc' = "gather_hpd_violations"
  /\ invoked' = Append(invoked, "geoclient.get_property_identifiers")
  /\ UNCHANGED <<fetch, property_info, address, compliance_data, calls, record>>

\* get_property_identifiers, second half, and the `if not identifiers` test
\* of process_property.  The text of the request's address is first read
\* here, so this is where the model draws it.
fallback_search ==
  /\ pc = "fallback_property_search"
  /\ \E addr \in Addresses, net \in NetOutcomes :
       LET res == fallback_property_search(addr, net)
       IN /\ address' = addr
          /\ calls' = calls \o res.calls
          /\ identifiers' = res.ids
          /\ pc' = IF res.ids.found THEN "gather_hpd_violations"
                   ELSE "create_empty_record"
  /\ invoked' = Append(invoked, "fallback_property_search")
  /\ UNCHANGED <<fetch, property_info, compliance_data, record>>

----------------------------------------------------------------------------
(* Scoring and record assembly *)

\* a score as an exact fraction n/d
Frac(n, d) == [n |-> n, d |-> d]
\* max that forgets the floor
Max_unclamped(a, b) == b
Max(a, b) == IF a >= b THEN a ELSE b

\* hpd_active that misses the registry's 'Open'
hpd_is_active_upper_only(v) == RowGet(v, "violationstatus") \in {"OPEN", "ACTIVE"}
hpd_is_active(v) == RowGet(v, "violationstatus") \in {"Open", "ACTIVE"}
dob_is_active(v) == RowGet(v, "disposition_comments") \in {NONE, ""}
\* elevator_active that counts every device
elevator_is_active_always(e) == TRUE
elevator_is_active(e) == RowGet(e, "device_status") = "Active"
electrical_is_active(e) ==
  RowGet(e, "filing_status") \in {"Approved", "Job in Process", "Active", "Permit Issued"}
\* filing_date present and its year >= this year - 2
electrical_is_recent(e) == RowGet(e, "filing_date") = "recent"

\* create_empty_record that scores the unresolved property 0 overall
create_empty_record_zero(addr) ==
  [address |-> addr, bin |-> NONE, bbl |-> NoneD, borough |-> NONE,
   block |-> NoneD, lot |-> NoneD, zip_code |-> NONE,
   hpd_violations_total |-> 0, hpd_violations_active |-> 0,
   dob_violations_total |-> 0, dob_violations_active |-> 0,
   elevator_devices_total |-> 0, elevator_devices_active |-> 0,
   boiler_devices_total |-> 0,
   electrical_permits_total |-> 0, electrical_permits_active |-> 0,
   hpd_compliance_score |-> Frac(100, 1),
   dob_compliance_score |-> Frac(100, 1),
   elevator_compliance_score |-> Frac(100, 1),
   electrical_compliance_score |-> Frac(100, 1),
   overall_compliance_score |-> Frac(0, 1),
   hpd_violations_data |-> <<>>, dob_violations_data |-> <<>>,
   elevator_data |-> <<>>, boiler_data |-> <<>>, electrical_data |-> <<>>,
   data_sources |-> "FAILED"]

\* the ComplianceRecord dataclass with its defaults, as create_empty_record
\* fills it
create_empty_record(addr) ==
  [address |-> addr, bin |-> NONE, bbl |-> NoneD, borough |-> NONE,
   block |-> NoneD, lot |-> NoneD, zip_code |-> NONE,
   hpd_violations_total |-> 0, hpd_violations_active |-> 0,
   dob_violations_total |-> 0, dob_violations_active |-> 0,
   elevator_devices_total |-> 0, elevator_devices_active |-> 0,
   boiler_devices_total |-> 0,
   electrical_permits_total |-> 0, electrical_permits_active |-> 0,
   hpd_compliance_score |-> Frac(100, 1),
   dob_compliance_score |-> Frac(100, 1),
   elevator_compliance_score |-> Frac(100, 1),
   electrical_compliance_score |-> Frac(100, 1),
   overall_compliance_score |-> Frac(100, 1),
   hpd_violations_data |-> <<>>, dob_violations_data |-> <<>>,
   elevator_data |-> <<>>, boiler_data |-> <<>>, electrical_data |-> <<>>,
   data_sources |-> "FAILED"]

\* the slots create_compliance_record iterates row by row (the counts'
\* list comprehensions and clean_data_for_json)
RecordSlots ==
  {"hpd_violations", "dob_violations", "elevator_inspections",
   "boiler_inspections", "electrical_permits"}

\* create_compliance_record raises when a slot it iterates holds a DataFrame
\* with rows: the loop variable is then a column label, a str
create_compliance_record_raises(cd) ==
  \E s \in RecordSlots : IterGetRaises(cd[s])

\* the overall score as the plain mean of the four category scores
overall_score_equal_weights(hpd_score, dob_score, en, ed, electrical_score) ==
  Frac((hpd_score + dob_score + electrical_score) * ed + en, 4 * ed)

\* overall_score = hpd * 0.3 + dob * 0.3 + elevator * 0.2 + electrical * 0.2,
\* the elevator score being the fraction en/ed
overall_score(hpd_score, dob_score, en, ed, electrical_score) ==
  Frac((3 * hpd_score + 3 * dob_score + 2 * electrical_score) * ed + 2 * en,
       10 * ed)

\* float('nan') as a registry row carries it for a missing value
NaN == "nan"

\* the keys whose values are ints or tuples in the rows of the model; such a
\* value is neither None nor NaN
NonStringKeys == {"violationid", "isn_dob_bis_viol", "i", "q"}

\* value is None or (isinstance(value, float) and math.isnan(value)) or
\* str(value).lower() == 'nan'
is_null(key, value) == key \notin NonStringKeys /\ value \in {NONE, NaN}

\* a cleaner that leaves out the rows with a missing value
clean_data_for_json_drop_null(data) ==
  SelectSeq(data, LAMBDA item : \A key \in DOMAIN item : ~is_null(key, item[key]))

\* clean_data_for_json
clean_data_for_json(data) ==
  [n \in 1..Len(data) |->
     [key \in DOMAIN data[n] |->
        IF is_null(key, data[n][key]) THEN NONE ELSE data[n][key]]]

\* create_compliance_record when nothing raises
create_compliance_record(ids, cd) ==
  LET hpd == cd["hpd_violations"].rows
      dob == cd["dob_violations"].rows
      elevator == cd["elevator_inspections"].rows
      boiler == cd["boiler_inspections"].rows
      electrical == cd["electrical_permits"].rows
      hpd_total == Len(hpd)
      hpd_active == Cardinality({ i \in 1..Len(hpd) : hpd_is_active(hpd[i]) })
      dob_total == Len(dob)
      dob_active == Cardinality({ i \in 1..Len(dob) : dob_is_active(dob[i]) })
      elevator_total == Len(elevator)
      elevator_active ==
        Cardinality({ i \in 1..Len(elevator) : elevator_is_active(elevator[i]) })
      electrical_total == Len(electrical)
      electrical_active ==
        Cardinality({ i \in 1..Len(electrical) : electrical_is_active(electrical[i]) })
      recent_permits ==
        Cardinality({ i \in 1..Len(electrical) : electrical_is_recent(electrical[i]) })
      hpd_score == IF hpd_total > 0 THEN Max(0, 100 - hpd_active * 10) ELSE 100
      dob_score == IF dob_total > 0 THEN Max(0, 100 - dob_active * 15) ELSE 100
      \* elevator_active / elevator_total * 100, as the fraction en/ed
      en == IF elevator_total > 0 THEN elevator_active * 100 ELSE 100
      ed == IF elevator_total > 0 THEN elevator_total ELSE 1
      electrical_score ==
        IF electrical_total > 0
          THEN IF recent_permits = 0 THEN 70
               ELSE IF electrical_active > 0 THEN 90 ELSE 100
          ELSE 85
  IN
  [address |-> ids.address, bin |-> ids.bin, bbl |-> ids.bbl,
   borough |-> ids.borough, block |-> ids.block, lot |-> ids.lot,
   zip_code |-> ids.zip_code,
   hpd_violations_total |-> hpd_total, hpd_violations_active |-> hpd_active,
   dob_violations_total |-> dob_total, dob_violations_active |-> dob_active,
   elevator_devices_total |-> elevator_total,
   elevator_devices_active |-> elevator_active,
   boiler_devices_total |-> Len(boiler),
   electrical_permits_total |-> electrical_total,
   electrical_permits_active |-> electrical_active,
   hpd_compliance_score |-> Frac(hpd_score, 1),
   dob_compliance_score |-> Frac(dob_score, 1),
   elevator_compliance_score |-> Frac(en, ed),
   electrical_compliance_score |-> Frac(electrical_score, 1),
   overall_compliance_score |->
     overall_score(hpd_score, dob_score, en, ed, electrical_score),
   hpd_violations_data |-> clean_data_for_json(hpd),
   dob_violations_data |-> clean_data_for_json(dob),
   elevator_data |-> clean_data_for_json(elevator),
   boiler_data |-> clean_data_for_json(boiler),
   electrical_data |-> clean_data_for_json(electrical),
   data_sources |-> "NYC_Open_Data,NYC_Planning_GeoSearch"]

\* process_property when identifiers is None
empty_record ==
  /\ pc = "create_empty_record"
  /\ record' = create_empty_record(address)
  /\ pc' = "returned"
  /\ UNCHANGED <<fetch, property_info, address, identifiers, compliance_data, calls, invoked>>

\* process_property, step 3; an exception of create_compliance_record is not
\* caught anywhere in process_property
assemble_record ==
  /\ pc = "create_compliance_record"
  /\ IF create_compliance_record_raises(compliance_data)
       THEN pc' = "raised" /\ record' = record
       ELSE /\ record' = create_compliance_record(identifiers, compliance_data)
            /\ pc' = "returned"
  /\ UNCHANGED <<fetch, property_info, address, identifiers, compliance_data, calls, invoked>>

----------------------------------------------------------------------------
(* The request pipeline of ComprehensivePropertyComplianceSystem *)

Init ==
  /\ pc = "get_property_identifiers"
  /\ address = <<>>
  /\ identifiers = NoIdentifiers
  /\ compliance_data = [s \in Slots |-> EmptyList]
  /\ calls = <<>>
  /\ invoked = <<>>
  /\ record = create_empty_record(<<>>)
  /\ property_info = [found |-> FALSE]
  /\ fetch = NoFetch

Next ==
  \/ primary_lookup
  \/ fallback_search
  \/ gather_hpd_violations
  \/ gather_dob_violations
  \/ gather_elevator_data
  \/ gather_boiler_data
  \/ gather_certificate_of_occupancy
  \/ gather_electrical_permits
  \/ assemble_record
  \/ empty_record

Spec == Init /\ [][Next]_vars

----------------------------------------------------------------------------
(* search_property_by_address (nyc_property_finder.py) *)

\* `datasets`, in priority order
FinderDatasets ==
  << "hpd_violations", "dob_violations", "boiler_inspections",
     "elevator_inspections", "hpd_registrations" >>

\* dataset_config[dataset]['address_columns']
address_columns(d) ==
  CASE d = "hpd_violations" -> [house |-> "housenumber", street |-> "streetname"]
    [] d = "dob_violations" -> [house |-> "house_number", street |-> "street"]
    [] d = "boiler_inspections" -> [house |-> "house_number", street |-> "street_name"]
    [] d = "elevator_inspections" -> [house |-> "house_number", street |-> "street_name"]
    [] d = "hpd_registrations" -> [house |-> "housenumber", street |-> "streetname"]

\* dataset_config[dataset]['id_columns']
id_columns(d) ==
  CASE d = "hpd_violations" -> {"bin", "boro", "block", "lot"}
    [] d = "dob_violations" -> {"bin", "boro", "block", "lot"}
    [] d = "boiler_inspections" -> {"bin_number", "boiler_id"}
    [] d = "elevator_inspections" -> {"bin", "block", "lot", "borough"}
    [] d = "hpd_registrations" -> {"bin", "boroid", "block", "lot"}

\* search_strategies for an address: both need a street name, i.e. a second
\* token; zip_code is not passed by get_property_info
finder_strategies(addr, d) ==
  IF Len(addr) >= 2
    THEN << [name |-> "exact_match",
             fields |-> {address_columns(d).house, address_columns(d).street}],
            [name |-> "street_match", fields |-> {address_columns(d).street}] >>
    ELSE << >>

\* What one finder query can come back with: a request error, no rows, a row
\* carrying every id column of the dataset, or one without its building id.
\* The boiler dataset has no address columns, so a query filtering on them
\* errors or matches nothing.
FinderOutcomes(d) ==
  IF d = "boiler_inspections" THEN {"error", "empty"}
  ELSE {"error", "empty", "bin_bbl", "bbl_only"}

FinderQueries ==
  { <<FinderDatasets[i], n>> : i \in 1..Len(FinderDatasets),
                               n \in {"exact_match", "street_match"} }

\* the registry answers of one finder run: every query comes back empty,
\* except at most one
FinderWorlds ==
  { [q \in FinderQueries |-> "empty"] } \cup
  { [q \in FinderQueries |-> IF q = q1 THEN o ELSE "empty"] :
      q1 \in FinderQueries, o \in {"error", "bin_bbl", "bbl_only"} }

FinderWorldOk(w) == \A q \in FinderQueries : w[q] \in FinderOutcomes(q[1])

\* the id columns found in a row of the answer
row_id_keys(d, kind) ==
  IF kind = "bin_bbl" THEN id_columns(d)
  ELSE id_columns(d) \ {"bin", "bin_number"}

\* `('bin' in match or 'bin_number' in match) or ('boro' in match and ...)`
has_min_identifiers(keys) ==
  \/ "bin" \in keys \/ "bin_number" \in keys
  \/ {"boro", "block", "lot"} \subseteq keys

\* is_duplicate: the rows of the model describe one building, so two matches
\* that share an identifier kind agree on its value
is_duplicate(keys, matches) ==
  \E i \in 1..Len(matches) :
    \/ "bin" \in keys /\ "bin" \in matches[i].keys
    \/ "bin_number" \in keys /\ "bin_number" \in matches[i].keys
    \/ {"boro", "block", "lot"} \subseteq keys
         /\ {"boro", "block", "lot"} \subseteq matches[i].keys

\* the dataset and strategy loops of search_property_by_address, from dataset
\* di and strategy si on; acc holds the get_data calls made and
\* potential_matches.  data.empty on None raises AttributeError, which the
\* strategy's except absorbs.
RECURSIVE finder_from(_, _, _, _, _)
finder_from(addr, w, di, si, acc) ==
  IF di > Len(FinderDatasets) THEN acc
  ELSE LET d == FinderDatasets[di]
           S == finder_strategies(addr, d)
       IN IF si > Len(S) THEN finder_from(addr, w, di + 1, 1, acc)
          ELSE LET o == w[<<d, S[si].name>>]
                   r == get_data(d, <<"search_property_by_address", d, S[si].name, o>>,
                                 IF o = "error" THEN RequestError
                                 ELSE IF o = "empty" THEN 0 ELSE 1)
                   c == Call("search_property_by_address", si, d, "address",
                             S[si].fields, NoIdentifiers, r)
                   cs == Append(acc.calls, c)
                   keys == row_id_keys(d, o)
                   ms == IF has_min_identifiers(keys) /\ ~is_duplicate(keys, acc.matches)
                           THEN Append(acc.matches,
                                       [dataset |-> d, strategy |-> S[si].name,
                                        keys |-> keys])
                           ELSE acc.matches
               IN IF r.raised \/ r.val.kind = "none" \/ Len(r.val.rows) = 0
                    THEN finder_from(addr, w, di, si + 1,
                                     [calls |-> cs, matches |-> acc.matches])
                    ELSE IF Len(ms) > 0
                      THEN finder_from(addr, w, di + 1, 1,
                                       [calls |-> cs, matches |-> ms])
                      ELSE finder_from(addr, w, di, si + 1,
                                       [calls |-> cs, matches |-> ms])

search_property_by_address(addr, w) ==
  finder_from(addr, w, 1, 1, [calls |-> <<>>, matches |-> <<>>])

----------------------------------------------------------------------------
(* AddressToSupabaseProcessor (address_to_supabase.py) *)

\* the value a row of the model holds in an id column
id_value(key) ==
  CASE key \in {"bin", "bin_number"} -> "1000001"
    [] key \in {"boro", "boroid", "borough"} -> "1"
    [] key = "block" -> "123"
    [] key = "lot" -> "45"
    [] OTHER -> NONE

\* property_data.get(key)
match_get(m, key) == IF key \in m.keys THEN id_value(key) ELSE NONE

\* `a or b`
Or(a, b) == IF Truthy(a) THEN a ELSE b

\* get_property_info: the dict built from results[0], None without results
get_property_info_of(addr, results) ==
  IF Len(results) > 0
    THEN LET m == results[1] IN
         [found |-> TRUE, address |-> addr,
          bin |-> Or(match_get(m, "bin"), match_get(m, "bin_number")),
          bbl |-> <<match_get(m, "boro"), match_get(m, "block"), match_get(m, "lot")>>,
          borough |-> Or(match_get(m, "boro"),
                         Or(match_get(m, "boroid"), match_get(m, "borough"))),
          block |-> match_get(m, "block"), lot |-> match_get(m, "lot"),
          building_class |-> match_get(m, "building_class"),
          year_built |-> match_get(m, "year_built"),
          num_floors |-> match_get(m, "num_floors"),
          units_total |-> match_get(m, "units_total")]
    ELSE [found |-> FALSE]

\* the six queries of gather_compliance_data: slot, dataset key, filter field
A2SQueries ==
  << [slot |-> "hpd_violations", dataset |-> "hpd_violations", field |-> "buildingid"],
     [slot |-> "dob_violations", dataset |-> "dob_violations", field |-> "bin"],
     [slot |-> "elevator_inspections", dataset |-> "elevator_inspections", field |-> "bin"],
     [slot |-> "boiler_inspections", dataset |-> "boiler_inspections", field |-> "bin"],
     [slot |-> "fire_safety_inspections", dataset |-> "fire_safety_inspections", field |-> "bin"],
     [slot |-> "cooling_tower_data", dataset |-> "cooling_tower_registrations", field |-> "bin"] >>

A2SSlots == { A2SQueries[i].slot : i \in 1..Len(A2SQueries) }

\* DataFrame.to_dict('records'): the rows as a list of dicts
to_dict_records(v) == [kind |-> "list", rows |-> v.rows]

\* gather_compliance_data from query k on: each query runs in its own try
\* block, with no test of bin_number; `x.to_dict('records') if not x.empty
\* else []` raises AttributeError on None and the slot keeps its [].  The
\* value is the set of ways the remaining queries can end.
RECURSIVE gather_compliance_data_from(_, _)
gather_compliance_data_from(info, k) ==
  IF k > Len(A2SQueries)
    THEN { [calls |-> <<>>, data |-> [s \in A2SSlots |-> EmptyList]] }
    ELSE UNION {
      LET Q == A2SQueries[k]
          r == get_data(Q.dataset, <<"gather_compliance_data", k>>, net)
          c == Call("gather_compliance_data", k, Q.dataset, "bin", {Q.field}, info, r)
          v == IF r.raised \/ r.val.kind = "none" \/ Len(r.val.rows) = 0
                 THEN EmptyList ELSE to_dict_records(r.val)
      IN { [calls |-> <<c>> \o x.calls, data |-> [x.data EXCEPT ![Q.slot] = v]] :
             x \in gather_compliance_data_from(info, k + 1) }
      : net \in NetOutcomes }

a2s_hpd_is_active(v) == RowGet(v, "violationstatus") = "Open"
a2s_dob_is_active(v) == RowGet(v, "disposition_date") \in {NONE, ""}
a2s_elevator_is_active(e) == RowGet(e, "device_status") = "A"
a2s_boiler_is_recent(b) == RowGet(b, "inspection_status") = "ACCEPTED"

\* calculate_compliance_scores
calculate_compliance_scores(cd) ==
  LET hpd == cd["hpd_violations"].rows
      dob == cd["dob_violations"].rows
      elevator == cd["elevator_inspections"].rows
      boiler == cd["boiler_inspections"].rows
      hpd_total == Len(hpd)
      hpd_active == Cardinality({ i \in 1..Len(hpd) : a2s_hpd_is_active(hpd[i]) })
      dob_total == Len(dob)
      dob_active == Cardinality({ i \in 1..Len(dob) : a2s_dob_is_active(dob[i]) })
      elevator_total == Len(elevator)
      elevator_active ==
        Cardinality({ i \in 1..Len(elevator) : a2s_elevator_is_active(elevator[i]) })
      boiler_total == Len(boiler)
      boiler_recent ==
        Cardinality({ i \in 1..Len(boiler) : a2s_boiler_is_recent(boiler[i]) })
      hpd_score == IF hpd_total > 0 THEN Max(0, 100 - hpd_active * 10) ELSE 100
      dob_score == IF dob_total > 0 THEN Max(0, 100 - dob_active * 15) ELSE 100
      en == IF elevator_total > 0 THEN elevator_active * 100 ELSE 100
      ed == IF elevator_total > 0 THEN elevator_total ELSE 1
      bn == IF boiler_total > 0 THEN boiler_recent * 100 ELSE 100
      bd == IF boiler_total > 0 THEN boiler_total ELSE 1
  IN [hpd_score |-> Frac(hpd_score, 1), dob_score |-> Frac(dob_score, 1),
      elevator_score |-> Frac(en, ed), boiler_score |-> Frac(bn, bd),
      \* hpd * 0.25 + dob * 0.25 + elevator * 0.25 + boiler * 0.25
      overall_score |-> Frac((hpd_score + dob_score) * ed * bd + en * bd + bn * ed,
                             4 * ed * bd)]

\* structure_for_supabase
structure_for_supabase(info, cd) ==
  LET scores == calculate_compliance_scores(cd)
      hpd == cd["hpd_violations"].rows
      dob == cd["dob_violations"].rows
      elevator == cd["elevator_inspections"].rows
  IN [kind |-> "record",
      address |-> info.address, bin |-> info.bin, bbl |-> info.bbl,
      borough |-> info.borough, block |-> info.block, lot |-> info.lot,
      building_class |-> info.building_class, year_built |-> info.year_built,
      num_floors |-> info.num_floors, units_total |-> info.units_total,
      hpd_violations_total |-> Len(hpd),
      hpd_violations_active |->
        Cardinality({ i \in 1..Len(hpd) : a2s_hpd_is_active(hpd[i]) }),
      dob_violations_total |-> Len(dob),
      dob_violations_active |->
        Cardinality({ i \in 1..Len(dob) : a2s_dob_is_active(dob[i]) }),
      elevator_devices_total |-> Len(elevator),
      elevator_devices_active |->
        Cardinality({ i \in 1..Len(elevator) : a2s_elevator_is_active(elevator[i]) }),
      boiler_devices_total |-> Len(cd["boiler_inspections"].rows),
      fire_safety_inspections_total |-> Len(cd["fire_safety_inspections"].rows),
      cooling_towers_total |-> Len(cd["cooling_tower_data"].rows),
      hpd_compliance_score |-> scores.hpd_score,
      dob_compliance_score |-> scores.dob_score,
      elevator_compliance_score |-> scores.elevator_score,
      boiler_compliance_score |-> scores.boiler_score,
      overall_compliance_score |-> scores.overall_score,
      hpd_violations_data |-> hpd, dob_violations_data |-> dob,
      elevator_data |-> elevator,
      boiler_data |-> cd["boiler_inspections"].rows,
      fire_safety_data |-> cd["fire_safety_inspections"].rows,
      cooling_tower_data |-> cd["cooling_tower_data"].rows,
      data_source |-> "NYC_Open_Data"]

\* process_address, step 1: get_property_info runs the finder on the address
get_property_info ==
  /\ pc = "get_property_info"
  /\ \E addr \in Addresses, w \in FinderWorlds :
       /\ FinderWorldOk(w)
       /\ LET res == search_property_by_address(addr, w)
              info == get_property_info_of(addr, res.matches)
          IN /\ address' = addr
             /\ calls' = calls \o res.calls
             /\ property_info' = info
             /\ pc' = IF info.found THEN "gather_compliance_data"
                      ELSE "property_not_found"
  /\ UNCHANGED <<fetch, identifiers, compliance_data, invoked, record>>

\* process_address: `if not property_info: return {"error": "Property not found"}`
property_not_found ==
  /\ pc = "property_not_found"
  /\ record' = [kind |-> "error", error |-> "Property not found"]
  /\ pc' = "returned"
  /\ UNCHANGED <<fetch, property_info, address, identifiers, compliance_data, calls, invoked>>

\* process_address, step 2
gather_compliance_data ==
  /\ pc = "gather_compliance_data"
  /\ \E res \in gather_compliance_data_from(property_info, 1) :
       /\ calls' = calls \o res.calls
       /\ compliance_data' = res.data
  /\ pc' = "structure_for_supabase"
  /\ UNCHANGED <<fetch, property_info, address, identifiers, invoked, record>>

\* process_address, step 3
structure_record ==
  /\ pc = "structure_for_supabase"
  /\ record' = structure_for_supabase(property_info, compliance_data)
  /\ pc' = "returned"
  /\ UNCHANGED <<fetch, property_info, address, identifiers, compliance_data, calls, invoked>>

InitA2S ==
  /\ pc = "get_property_info"
  /\ address = <<>>
  /\ identifiers = NoIdentifiers
  /\ compliance_data = [s \in A2SSlots |-> EmptyList]
  /\ calls = <<>>
  /\ invoked = <<>>
  /\ record = [kind |-> "none"]
  /\ property_info = [found |-> FALSE]
  /\ fetch = NoFetch

NextA2S ==
  \/ get_property_info
  \/ property_not_found
  \/ gather_compliance_data
  \/ structure_record

SpecA2S == InitA2S /\ [][NextA2S]_vars

----------------------------------------------------------------------------
(* The primary lookup on its own: parcel ids of the documented format *)

\* the digits the parcel ids of GeoParcels are made of
BoroughDigits == {1, 3}
ParcelDigits == {0, 7}

\* pad_data.get('bbl'): 1-digit borough + 5-digit block + 4-digit lot
GeoParcels ==
  { <<b>> \o blk \o lt : b \in BoroughDigits,
                         blk \in [1..5 -> ParcelDigits],
                         lt \in [1..4 -> ParcelDigits] }

\* NYCPlanningGeoSearchClient.get_property_identifiers on a feature with the
\* given parcel id
geo_lookup ==
  /\ pc = "geo_get_property_identifiers"
  /\ \E bbl \in GeoParcels :
       identifiers' = geo_get_property_identifiers(
                        Feature("123", <<"PARK", "AVE">>, "Manhattan", "1000001", bbl))
  /\ pc' = "identified"
  /\ UNCHANGED <<fetch, property_info, address, compliance_data, calls, invoked, record>>

InitGeo ==
  /\ pc = "geo_get_property_identifiers"
  /\ address = <<"123", "PARK", "AVE">>
  /\ identifiers = NoIdentifiers
  /\ compliance_data = [s \in Slots |-> EmptyList]
  /\ calls = <<>>
  /\ invoked = <<>>
  /\ record = [kind |-> "none"]
  /\ property_info = [found |-> FALSE]
  /\ fetch = NoFetch

NextGeo == geo_lookup

SpecGeo == InitGeo /\ [][NextGeo]_vars

----------------------------------------------------------------------------
(* The scoring functions on their own: lists of rows as the searchers are   *)
(* written to collect them                                                  *)

\* the most rows a category holds in the inputs of the scoring check: a
\* violation category on its own goes far enough for its score to reach 0,
\* the categories next to it hold some or a few rows
MaxHpdRows == 11
MaxDobRows == 7
MaxDeviceRows == 2
MaxSomeRows == 2
MaxFewRows == 1

\* a total and the number of active rows among them
Counts(max) == { c \in (0..max) \X (0..max) : c[2] <= c[1] }

\* t housing-violation rows, the first a of them open
HpdRows(c) ==
  [i \in 1..c[1] |-> [violationid |-> i,
                      violationstatus |-> IF i <= c[2] THEN "Open" ELSE "Close",
                      novdescription |-> IF i % 2 = 1 THEN NaN ELSE "HEAT"]]

\* t building-violation rows, the first a of them without a disposition
DobRows(c) ==
  [i \in 1..c[1] |-> IF i <= c[2]
     THEN [isn_dob_bis_viol |-> i]
     ELSE [isn_dob_bis_viol |-> i, disposition_comments |-> "DISMISSED",
           disposition_date |-> "20200101"]]

\* elevator rows by device_status; the two processors test for different
\* values ('Active' and 'A')
DeviceRows(max) ==
  UNION { [1..n -> { [device_status |-> s] : s \in {"Active", "A", "Removed"} }] :
            n \in 0..max }

PermitRows ==
  UNION { [1..n -> { [filing_status |-> s, filing_date |-> d] :
                       s \in {"Approved", "Complete"}, d \in {"recent", "old"} }] :
            n \in 0..MaxFewRows }

BoilerRows ==
  UNION { [1..n -> { [inspection_status |-> s] : s \in {"ACCEPTED", "REJECTED"} }] :
            n \in 0..MaxFewRows }

CooRows ==
  UNION { [1..n -> { [c_of_o_status |-> "Issued", job_type |-> "NB"] }] :
            n \in 0..MaxFewRows }

ListOf(rows) == [kind |-> "list", rows |-> rows]

\* the row counts of the housing, building and elevator categories when the
\* violation counts range far
ViolationMixes ==
  (Counts(MaxHpdRows) \X Counts(MaxSomeRows) \X DeviceRows(MaxFewRows)) \cup
  (Counts(MaxFewRows) \X Counts(MaxDobRows) \X DeviceRows(MaxFewRows))

\* the same when the elevator rows range far
EquipmentMixes ==
  Counts(MaxFewRows) \X Counts(MaxFewRows) \X DeviceRows(MaxDeviceRows)

\* the rows handed to create_compliance_record: housing, building and
\* elevator rows, permits, certificates; permits come with the equipment
\* mixes, certificates alone
ComprehensiveInputs ==
  (ViolationMixes \X {<<>>} \X {<<>>}) \cup
  (EquipmentMixes \X PermitRows \X {<<>>}) \cup
  ({<<<<0, 0>>, <<0, 0>>, <<>>>>} \X {<<>>} \X CooRows)

\* the compliance_data dict of such rows
ComprehensiveData(x) ==
  [s \in Slots |->
     CASE s = "hpd_violations" -> ListOf(HpdRows(x[1][1]))
       [] s = "dob_violations" -> ListOf(DobRows(x[1][2]))
       [] s = "elevator_inspections" -> ListOf(x[1][3])
       [] s = "electrical_permits" -> ListOf(x[2])
       [] s = "certificate_of_occupancy" -> ListOf(x[3])
       [] OTHER -> EmptyList]

\* the rows handed to structure_for_supabase: housing, building and elevator
\* rows, boiler rows; boilers come with the equipment mixes
A2SInputs ==
  (ViolationMixes \X {<<>>}) \cup (EquipmentMixes \X BoilerRows)

\* the compliance_data dict of such rows
A2SData(x) ==
  [s \in A2SSlots |->
     CASE s = "hpd_violations" -> ListOf(HpdRows(x[1][1]))
       [] s = "dob_violations" -> ListOf(DobRows(x[1][2]))
       [] s = "elevator_inspections" -> ListOf(x[1][3])
       [] s = "boiler_inspections" -> ListOf(x[2])
       [] OTHER -> EmptyList]

ScoredIdentifiers ==
  geo_get_property_identifiers(
    Feature("123", <<"PARK", "AVE">>, "Manhattan", "1000001", <<1,0,0,1,2,3,0,0,4,5>>))

\* create_compliance_record applied to collected rows
score_comprehensive ==
  /\ pc = "score"
  /\ \E x \in ComprehensiveInputs :
       /\ compliance_data' = ComprehensiveData(x)
       /\ record' = create_compliance_record(ScoredIdentifiers, ComprehensiveData(x))
  /\ identifiers' = ScoredIdentifiers
  /\ invoked' = <<"create_compliance_record">>
  /\ pc' = "scored"
  /\ UNCHANGED <<fetch, property_info, address, calls>>

\* structure_for_supabase (and so calculate_compliance_scores) applied to
\* collected rows
score_a2s ==
  /\ pc = "score"
  /\ \E x \in A2SInputs :
       /\ compliance_data' = A2SData(x)
       /\ record' = structure_for_supabase(
                      get_property_info_of(address,
                        << [dataset |-> "hpd_violations", strategy |-> "exact_match",
                            keys |-> id_columns("hpd_violations")] >>), A2SData(x))
  /\ invoked' = <<"structure_for_supabase">>
  /\ pc' = "scored"
  /\ UNCHANGED <<fetch, property_info, address, identifiers, calls>>

\* create_empty_record
score_empty ==
  /\ pc = "score"
  /\ record' = create_empty_record(address)
  /\ invoked' = <<"create_empty_record">>
  /\ pc' = "scored"
  /\ UNCHANGED <<fetch, property_info, address, identifiers, compliance_data, calls>>

InitScore ==
  /\ pc = "score"
  /\ address = <<"123", "PARK", "AVE">>
  /\ identifiers = NoIdentifiers
  /\ compliance_data = [s \in Slots |-> EmptyList]
  /\ calls = <<>>
  /\ invoked = <<>>
  /\ record = [kind |-> "none"]
  /\ property_info = [found |-> FALSE]
  /\ fetch = NoFetch

NextScore ==
  \/ score_comprehensive
  \/ score_a2s
  \/ score_empty

SpecScore == InitScore /\ [][NextScore]_vars

----------------------------------------------------------------------------
(* NYCOpenDataClient.get_data at the level of the HTTP exchange *)

\* the where argument of a call: absent, a filter the registry accepts, or
\* one it rejects
WhereClauses == {NONE, "well-formed", "malformed"}

\* how the transport ends: a response, or a requests exception before one
Transports == {"response", "ConnectionError", "Timeout"}

\* the dataset keys callers pass: the registered ones and the two the
\* aggregator uses without registering them
ClientKeys == datasets \cup {"electrical_permits", "certificate_of_occupancy"}

\* self.session.get(...) followed by response.raise_for_status(): the
\* registry answers a filter it cannot parse with HTTP 400, which
\* raise_for_status turns into requests.exceptions.HTTPError
session_get(where, transport, n) ==
  IF transport # "response" THEN [status |-> transport, n |-> 0]
  ELSE IF where = "malformed" THEN [status |-> "HTTPError 400", n |-> 0]
  ELSE [status |-> "200", n |-> n]

\* get_data on that exchange: ConnectionError, Timeout and HTTPError are all
\* requests.exceptions.RequestException and end in `return None`
get_data_http(dataset_key, q, resp) ==
  get_data(dataset_key, q, IF resp.status = "200" THEN resp.n ELSE RequestError)

\* one call of get_data
client_get_data ==
  /\ pc = "client"
  /\ \E key \in ClientKeys, where \in WhereClauses, transport \in Transports,
        n \in 0..MaxRows :
       LET resp == session_get(where, transport, n)
           r == get_data_http(key, <<"get_data", 1>>, resp)
       IN /\ calls' = << Call("get_data", 1, key, where, {}, NoIdentifiers, r) >>
          /\ invoked' = << "get_data",
                           IF key \in datasets THEN resp.status ELSE "no request" >>
  /\ pc' = "got"
  /\ UNCHANGED <<fetch, property_info, address, identifiers, compliance_data, record>>

\* gather_boiler_data on that exchange: its one query filters on the BIN of
\* the identifiers, which the registry accepts or rejects
gather_boiler_data_http ==
  /\ pc = "client"
  /\ \E p \in GeoFeatures, where \in {"well-formed", "malformed"},
        transport \in Transports, n \in 0..MaxRows :
       LET ids == geo_get_property_identifiers(p)
           resp == session_get(where, transport, n)
           r == get_data_http("boiler_inspections", <<"gather_boiler_data", 1>>, resp)
       IN /\ identifiers' = ids
          /\ \E res \in run_strategies("gather_boiler_data", "boiler_inspections",
                                       boiler_strategies(ids), ids, 1) :
               /\ \A i \in 1..Len(res.calls) : res.calls[i].val = r.val
               /\ calls' = res.calls
               /\ compliance_data' =
                    [compliance_data EXCEPT !["boiler_inspections"] = res.data]
               /\ invoked' = << "gather_boiler_data",
                                IF Len(res.calls) > 0 THEN resp.status
                                ELSE "no request", where >>
  /\ pc' = "gathered"
  /\ UNCHANGED <<fetch, property_info, address, record>>

InitClient ==
  /\ pc = "client"
  /\ address = <<>>
  /\ identifiers = NoIdentifiers
  /\ compliance_data = [s \in Slots |-> EmptyList]
  /\ calls = <<>>
  /\ invoked = <<>>
  /\ record = [kind |-> "none"]
  /\ property_info = [found |-> FALSE]
  /\ fetch = NoFetch

NextClient ==
  \/ client_get_data
  \/ gather_boiler_data_http

SpecClient == InitClient /\ [][NextClient]_vars

----------------------------------------------------------------------------
(* NYCOpenDataClient.get_all_data and utils.robust_data_fetch *)

MaxDataset == 4
MaxBatch == 3
MaxRecords == 3
MaxRetries == 3

Min(a, b) == IF a <= b THEN a ELSE b

\* how many records the registry holds from an offset on, up to the limit
page_size(size, limit, offset) ==
  IF offset >= size \/ limit <= 0 THEN 0 ELSE Min(limit, size - offset)

\* the records of a page, by their position in the dataset (row i of the page
\* requested at offset q is record q + i)
page_records(rows) == [i \in 1..Len(rows) |-> rows[i].q + rows[i].i]

\* pd.concat(all_data, ignore_index=True) if all_data else pd.DataFrame()
RECURSIVE concat(_)
concat(all_data) ==
  IF Len(all_data) = 0 THEN <<>> ELSE Head(all_data) \o concat(Tail(all_data))

\* sum(len(d) for d in all_data)
total_fetched(all_data) == Len(concat(all_data))

\* current_limit = min(batch_size, max_records - len(all_data)) if max_records
\* else batch_size; all_data is the list of pages, max_records 0 stands for
\* None (both are falsy)
current_limit(f) ==
  IF f.max_records # 0
    THEN Min(f.batch_size, f.max_records - Len(f.all_data))
    ELSE f.batch_size

\* get_all_data is called
get_all_data_call ==
  /\ pc = "idle"
  /\ \E size \in 0..MaxDataset, batch_size \in 1..MaxBatch,
        max_records \in 0..MaxRecords :
       fetch' = [op |-> "get_all_data", size |-> size, batch_size |-> batch_size,
                 max_records |-> max_records, all_data |-> <<>>, offset |-> 0,
                 requests |-> <<>>, result |-> <<>>]
  /\ pc' = "get_all_data"
  /\ UNCHANGED <<property_info, address, identifiers, compliance_data, calls,
                 invoked, record>>

\* one turn of the `while True` loop, with the return when the loop breaks
get_all_data_page ==
  /\ pc = "get_all_data"
  /\ \E ok \in BOOLEAN :
       LET limit == current_limit(fetch)
           r == get_data("hpd_violations", fetch.offset,
                         IF ok THEN page_size(fetch.size, limit, fetch.offset)
                         ELSE RequestError)
           df == page_records(r.val.rows)
           req == Append(fetch.requests,
                         [limit |-> limit, offset |-> fetch.offset, ok |-> ok])
           all == Append(fetch.all_data, df)
       IN IF r.val.kind = "none" \/ Len(df) = 0
            THEN /\ fetch' = [fetch EXCEPT !.requests = req,
                                           !.result = concat(fetch.all_data)]
                 /\ pc' = "returned"
            ELSE IF \/ Len(df) < limit
                    \/ (fetch.max_records # 0
                          /\ total_fetched(all) >= fetch.max_records)
              THEN /\ fetch' = [fetch EXCEPT !.requests = req, !.all_data = all,
                                             !.result = concat(all)]
                   /\ pc' = "returned"
              ELSE /\ fetch' = [fetch EXCEPT !.requests = req, !.all_data = all,
                                             !.offset = fetch.offset + limit]
                   /\ pc' = "get_all_data"
  /\ UNCHANGED <<property_info, address, identifiers, compliance_data, calls,
                 invoked, record>>

\* robust_data_fetch that goes on to the next attempt after an unexpected
\* exception
robust_attempt_no_break(f, r) ==
  IF ~r.raised /\ HasRows(r.val)
    THEN [f EXCEPT !.attempt = f.attempt + 1, !.done = TRUE, !.result = r.val]
    ELSE [f EXCEPT !.attempt = f.attempt + 1,
                   !.done = (f.attempt + 1 >= f.retries),
                   !.result = DataFrame(<<>>)]

\* one turn of `for attempt in range(retries)` on the outcome r of get_data:
\* a non-empty frame is returned at once, an exception ends the loop, and
\* leaving the loop returns pd.DataFrame()
robust_attempt(f, r) ==
  IF r.raised
    THEN [f EXCEPT !.attempt = f.attempt + 1, !.done = TRUE,
                   !.result = DataFrame(<<>>)]
    ELSE IF HasRows(r.val)
      THEN [f EXCEPT !.attempt = f.attempt + 1, !.done = TRUE, !.result = r.val]
      ELSE [f EXCEPT !.attempt = f.attempt + 1,
                     !.done = (f.attempt + 1 >= f.retries),
                     !.result = DataFrame(<<>>)]

\* robust_data_fetch is called; with retries <= 0 the loop has no turn
robust_data_fetch_call ==
  /\ pc = "idle"
  /\ \E retries \in 0..MaxRetries, key \in {"hpd_violations", "electrical_permits"} :
       /\ fetch' = [op |-> "robust_data_fetch", retries |-> retries,
                    dataset_key |-> key, attempt |-> 0, done |-> retries = 0,
                    result |-> DataFrame(<<>>)]
       /\ pc' = IF retries = 0 THEN "returned" ELSE "robust_data_fetch"
  /\ UNCHANGED <<property_info, address, identifiers, compliance_data, calls,
                 invoked, record>>

robust_data_fetch_attempt ==
  /\ pc = "robust_data_fetch"
  /\ \E net \in NetOutcomes :
       LET r == get_data(fetch.dataset_key, <<"robust_data_fetch", fetch.attempt>>, net)
           f == robust_attempt(fetch, r)
       IN /\ calls' = Append(calls, Call("robust_data_fetch", fetch.attempt + 1,
                                         fetch.dataset_key, "kwargs", {},
                                         NoIdentifiers, r))
          /\ fetch' = f
          /\ pc' = IF f.done THEN "returned" ELSE "robust_data_fetch"
  /\ UNCHANGED <<property_info, address, identifiers, compliance_data, invoked,
                 record>>

InitFetch ==
  /\ pc = "idle"
  /\ address = <<>>
  /\ identifiers = NoIdentifiers
  /\ compliance_data = [s \in Slots |-> EmptyList]
  /\ calls = <<>>
  /\ invoked = <<>>
  /\ record = [kind |-> "none"]
  /\ property_info = [found |-> FALSE]
  /\ fetch = NoFetch

NextFetch ==
  \/ get_all_data_call
  \/ get_all_data_page
  \/ robust_data_fetch_call
  \/ robust_data_fetch_attempt

SpecFetch == InitFetch /\ [][NextFetch]_vars

----------------------------------------------------------------------------
(* The six searchers run in any order against fixed registry responses *)

\* the fixed responses of one request: what the registry answers to every
\* query of a searcher; a searcher whose dataset key is not registered sends
\* no request, so its entry is fixed
SearcherWorlds ==
  { w \in [{ Searchers[i] : i \in 1..Len(Searchers) } -> NetOutcomes] :
      \A i \in 1..Len(Searchers) :
        SlotOf(Searchers[i]) \notin datasets => w[Searchers[i]] = 0 }

\* the run of a searcher that the responses w determine
searcher_run(by, ids, w) ==
  CHOOSE x \in run_strategies(by, SlotOf(by), StrategiesOf(by, ids), ids, 1) :
    \A i \in 1..Len(x.calls) :
      x.calls[i].val = get_data(x.calls[i].dataset, <<by, x.calls[i].k>>, w[by]).val

\* a searcher that rebuilds the collected data around its own result
write_slot_reset_others(cd, by, data) ==
  [s \in DOMAIN cd |-> IF s = SlotOf(by) THEN data ELSE EmptyList]

\* compliance_data['<slot>'] = data, done only when rows were found
write_slot(cd, by, data) ==
  IF data = EmptyList THEN cd ELSE [cd EXCEPT ![SlotOf(by)] = data]

\* the searchers that have run, in the order of Searchers
Done == { invoked[i] : i \in 1..Len(invoked) }

\* any searcher that has not run yet runs next; the call log is not kept in
\* this specification
gather_in_any_order ==
  /\ pc = "gather_in_any_order"
  /\ \E j \in 1..Len(Searchers) :
       LET by == Searchers[j] IN
       /\ by \notin Done
       /\ compliance_data' =
            write_slot(compliance_data, by,
                       searcher_run(by, identifiers, fetch.world).data)
       /\ invoked' = SelectSeq(Searchers, LAMBDA b : b \in Done \cup {by})
       /\ pc' = IF Len(invoked) + 1 = Len(Searchers)
                  THEN "create_compliance_record" ELSE "gather_in_any_order"
  /\ UNCHANGED <<fetch, property_info, address, identifiers, calls, record>>

InitAnyOrder ==
  /\ pc = "gather_in_any_order"
  /\ address = <<"123", "PARK", "AVE">>
  /\ identifiers = ScoredIdentifiers
  /\ compliance_data = [s \in Slots |-> EmptyList]
  /\ calls = <<>>
  /\ invoked = <<>>
  /\ record = [kind |-> "none"]
  /\ property_info = [found |-> FALSE]
  /\ fetch \in { [op |-> "any_order", world |-> w] : w \in SearcherWorlds }

NextAnyOrder ==
  \/ gather_in_any_order
  \/ assemble_record

SpecAnyOrder == InitAnyOrder /\ [][NextAnyOrder]_vars

----------------------------------------------------------------------------
(* Filter expressions built from an address, character by character *)

\* the longest street name of an input address
MaxStreetLen == 3

\* the characters street names are drawn from
StreetChars == {"a", "B", "'"}

StreetNames == UNION { [1..k -> StreetChars] : k \in 1..MaxStreetLen }

HouseNumbers == { <<"1">>, <<"1", "2">> }

\* the tails an input address may carry: a postal code, a state suffix
ZipTails == { <<>>, <<" ", "1", "0", "0", "0", "1">> }

StateTails == { <<>>, <<",", " ", "N", "Y">> }

\* str.upper on one character of the model's alphabet
upper_char(c) == IF c = "a" THEN "A" ELSE c

\* str.upper
upper(s) == [i \in 1..Len(s) |-> upper_char(s[i])]

RECURSIVE strip(_)
\* str.strip
strip(s) ==
  IF s = <<>> THEN s
  ELSE IF Head(s) = " " THEN strip(Tail(s))
  ELSE IF s[Len(s)] = " " THEN strip(SubSeq(s, 1, Len(s) - 1))
  ELSE s

\* str.find, counted from 1; 0 when sub does not occur
find(s, sub) ==
  LET at == { i \in 1..(Len(s) - Len(sub) + 1) : SubSeq(s, i, i + Len(sub) - 1) = sub }
  IN IF at = {} THEN 0 ELSE CHOOSE i \in at : \A j \in at : i <= j

RECURSIVE replace(_, _)
\* str.replace(sub, '')
replace(s, sub) ==
  LET i == find(s, sub) IN
  IF sub = <<>> \/ i = 0 THEN s
  ELSE SubSeq(s, 1, i - 1) \o replace(SubSeq(s, i + Len(sub), Len(s)), sub)

suffixes_to_remove ==
  << <<",", " ", "N", "E", "W", " ", "Y", "O", "R", "K", ",", " ", "N", "Y">>,
     <<",", " ", "N", "E", "W", " ", "Y", "O", "R", "K">>,
     <<",", " ", "N", "Y">>,
     <<",", " ", "M", "A", "N", "H", "A", "T", "T", "A", "N">>,
     <<",", " ", "B", "R", "O", "O", "K", "L", "Y", "N">>,
     <<",", " ", "Q", "U", "E", "E", "N", "S">>,
     <<",", " ", "B", "R", "O", "N", "X">>,
     <<",", " ", "S", "T", "A", "T", "E", "N", " ", "I", "S", "L", "A", "N", "D">> >>

RECURSIVE remove_suffixes(_, _)
\* for suffix in suffixes_to_remove: address_clean = address_clean.replace(suffix, '')
remove_suffixes(s, k) ==
  IF k > Len(suffixes_to_remove) THEN s
  ELSE remove_suffixes(replace(s, suffixes_to_remove[k]), k + 1)

IsDigit(c) == c \in {"0", "1", "2", "3", "4", "5", "6", "7", "8", "9"}

\* \w of the regular expression, on the model's alphabet
IsWordChar(c) == c \notin {" ", ",", "'", "%", "="}

\* re.search(r'\b(\d{5})\b', s): the first match, <<>> for no match
zip_search(s) ==
  LET at == { i \in 1..(Len(s) - 4) :
                /\ \A j \in i..(i + 4) : IsDigit(s[j])
                /\ (i = 1 \/ ~IsWordChar(s[i - 1]))
                /\ (i + 5 > Len(s) \/ ~IsWordChar(s[i + 5])) }
  IN IF at = {} THEN <<>>
     ELSE LET i == CHOOSE i \in at : \A j \in at : i <= j IN SubSeq(s, i, i + 4)

RECURSIVE split(_)
\* str.split(' ')
split(s) ==
  LET i == find(s, <<" ">>) IN
  IF i = 0 THEN <<s>>
  ELSE <<SubSeq(s, 1, i - 1)>> \o split(SubSeq(s, i + 1, Len(s)))

RECURSIVE join(_)
\* ' '.join(parts)
join(parts) ==
  IF parts = <<>> THEN <<>>
  ELSE IF Len(parts) = 1 THEN parts[1]
  ELSE parts[1] \o <<" ">> \o join(Tail(parts))

\* the address components fallback_property_search parses
fallback_components(addr) ==
  LET cleaned == remove_suffixes(strip(upper(addr)), 1)
      zip_code == zip_search(cleaned)
      address_clean == IF zip_code # <<>> THEN strip(replace(cleaned, zip_code))
                       ELSE cleaned
      address_parts == split(address_clean)
  IN [house_number |-> address_parts[1],
      street_name |-> IF Len(address_parts) > 1 THEN join(Tail(address_parts)) ELSE <<>>,
      zip_code |-> zip_code]

\* where_clause of fallback_property_search: the fixed text of the f-string
\* is kept in pieces, the inserted values character by character
fallback_where_clause(c) ==
  <<"housenumber = ", "'">> \o c.house_number
    \o <<"'", " AND streetname LIKE ", "'", "%">> \o c.street_name \o <<"%", "'">>
    \o (IF c.zip_code # <<>>
          THEN <<" AND zip = ", "'">> \o c.zip_code \o <<"'">> ELSE <<>>)

\* the values the clause is meant to compare with
fallback_literals(c) ==
  <<c.house_number, <<"%">> \o c.street_name \o <<"%">>>>
    \o (IF c.zip_code # <<>> THEN <<c.zip_code>> ELSE <<>>)

\* formatted_address = f"{house_number} {street}".strip()
formatted_address(p) == strip(p.housenumber \o <<" ">> \o p.street)

\* the where clause of the address strategy of gather_hpd_violations
hpd_address_where_clause(house_number, street_name) ==
  <<"housenumber = ", "'">> \o house_number
    \o <<"'", " AND UPPER(streetname) LIKE ", "'", "%">> \o upper(street_name)
    \o <<"%", "'">>

\* GeoSearch knows the address: identifiers.address is its formatted address
geo_found ==
  /\ pc = "get_property_identifiers"
  /\ property_info.found
  /\ identifiers' = [found |-> TRUE, address |-> formatted_address(property_info)]
  /\ pc' = "gather_hpd_violations"
  /\ UNCHANGED <<fetch, property_info, address, compliance_data, calls, invoked, record>>

\* GeoSearch has no feature for the address
geo_not_found ==
  /\ pc = "get_property_identifiers"
  /\ ~property_info.found
  /\ pc' = "fallback_property_search"
  /\ UNCHANGED <<fetch, property_info, address, identifiers, compliance_data, calls,
                 invoked, record>>

\* fallback_property_search up to its get_data call
fallback_filter ==
  /\ pc = "fallback_property_search"
  /\ LET c == fallback_components(address) IN
       calls' = Append(calls, [by |-> "fallback_property_search",
                               dataset |-> "hpd_violations",
                               where |-> fallback_where_clause(c),
                               literals |-> fallback_literals(c)])
  /\ invoked' = Append(invoked, "fallback_property_search")
  /\ pc' = "fallback_queried"
  /\ UNCHANGED <<fetch, property_info, address, identifiers, compliance_data, record>>

\* Strategy 3 of gather_hpd_violations up to its get_data call
hpd_address_filter ==
  /\ pc = "gather_hpd_violations"
  /\ LET address_parts == split(identifiers.address) IN
       /\ Len(address_parts) >= 2
       /\ LET house_number == address_parts[1]
              street_name == join(Tail(address_parts))
          IN calls' = Append(calls, [by |-> "gather_hpd_violations",
                                     dataset |-> "hpd_violations",
                                     where |-> hpd_address_where_clause(house_number,
                                                                        street_name),
                                     literals |-> <<house_number,
                                                    <<"%">> \o upper(street_name)
                                                      \o <<"%">>>>])
  /\ invoked' = Append(invoked, "gather_hpd_violations")
  /\ pc' = "hpd_queried"
  /\ UNCHANGED <<fetch, property_info, address, identifiers, compliance_data, record>>

InitFilter ==
  /\ pc = "get_property_identifiers"
  /\ \E h \in HouseNumbers, s \in StreetNames, z \in ZipTails, t \in StateTails,
        found \in BOOLEAN :
       /\ address = h \o <<" ">> \o s \o z \o t
       /\ property_info = IF found
                            THEN [found |-> TRUE, housenumber |-> h, street |-> upper(s)]
                            ELSE [found |-> FALSE]
  /\ identifiers = NoIdentifiers
  /\ compliance_data = [s \in Slots |-> EmptyList]
  /\ calls = <<>>
  /\ invoked = <<>>
  /\ record = [kind |-> "none"]
  /\ fetch = NoFetch

NextFilter ==
  \/ geo_found
  \/ geo_not_found
  \/ fallback_filter
  \/ hpd_address_filter

SpecFilter == InitFilter /\ [][NextFilter]_vars

----------------------------------------------------------------------------
(* Webhook relay: ComplianceWebhookService._prepare_filtered_data *)

\* the most rows one category of a forwarded record holds
MaxWebhookRows == 2

\* a date value of a row: its format, the day and the second of the day it
\* denotes
DateValue(fmt, day, sec) == [fmt |-> fmt, day |-> day, sec |-> sec]

\* None, as the value of a date field
NoDate == DateValue("none", 0, 0)

\* the date values of the rows: 'MM/DD/YYYY HH:MM:SS', 'MM/DD/YYYY',
\* 'YYYY-MM-DDTHH:MM:SS.fff', 'YYYY-MM-DDTHH:MM:SS+05:00', 'YYYY-MM-DD',
\* 'YYYYMMDD', 'TBD', an int and None
DateValues ==
  { DateValue("us", 1, 2), DateValue("us", 2, 0), DateValue("us_date", 2, 0),
    DateValue("iso", 1, 0), DateValue("iso", 1, 1), DateValue("iso_tz", 2, 0),
    DateValue("ymd", 1, 0), DateValue("ymd", 2, 0), DateValue("compact", 2, 0),
    DateValue("text", 0, 0), DateValue("int", 2, 0), NoDate }

\* the characters of a date string that the parser tests for
chars_of(date_str) ==
  CASE date_str.fmt = "us" -> {"/", " "}
    [] date_str.fmt = "us_date" -> {"/"}
    [] date_str.fmt \in {"iso", "iso_tz"} -> {"T", "-"}
    [] date_str.fmt = "ymd" -> {"-"}
    [] date_str.fmt = "text" -> {"T"}
    [] OTHER -> {}

\* datetime.now() of a call, and cutoff_date = now - timedelta(days=730)
Nows == { [day |-> 731, sec |-> 1], [day |-> 732, sec |-> 0] }

cutoff_date_of(now) == [day |-> now.day - 730, sec |-> now.sec]

\* the five categories forwarded: key of nyc_data, key of the input, date field
WebhookCategories ==
  << <<"hpd_violations", "hpd_violations_data", "approveddate">>,
     <<"dob_violations", "dob_violations_data", "issue_date">>,
     <<"elevator_inspections", "elevator_data", "status_date">>,
     <<"boiler_inspections", "boiler_data", "inspection_date">>,
     <<"electrical_permits", "electrical_data", "filing_date">> >>

\* dict.get(key, default)
dict_get(d, key, default) == IF key \in DOMAIN d THEN d[key] ELSE default

\* a JSON text by what json.loads makes of it: a list of dicts, an object,
\* text that does not parse, the empty string, and None in place of a text
JsonList(rows) == [json |-> "list", rows |-> rows]

JsonTexts == { [json |-> k, rows |-> <<>>] : k \in {"object", "invalid", "empty", "none"} }

\* the rows of one category: each holds the category's date field, or lacks it
WebhookRows(date_field) ==
  { (date_field :> v) : v \in DateValues \ {NoDate} } \cup
  { (date_field :> NoDate), ("violationid" :> NoDate) }

\* the date the parser reads from a date string: ok is FALSE when the string
\* is skipped (no branch applies, or strptime / fromisoformat raises ValueError)
parse_date(date_str) ==
  IF "/" \in chars_of(date_str) /\ " " \in chars_of(date_str)
    THEN [ok |-> TRUE, day |-> date_str.day, sec |-> 0, aware |-> FALSE]
  ELSE IF "T" \in chars_of(date_str)
    THEN IF date_str.fmt \in {"iso", "iso_tz"}
           THEN [ok |-> TRUE, day |-> date_str.day, sec |-> date_str.sec,
                 aware |-> date_str.fmt = "iso_tz"]
           ELSE [ok |-> FALSE, day |-> 0, sec |-> 0, aware |-> FALSE]
  ELSE IF "-" \in chars_of(date_str)
    THEN [ok |-> TRUE, day |-> date_str.day, sec |-> 0, aware |-> FALSE]
  ELSE [ok |-> FALSE, day |-> 0, sec |-> 0, aware |-> FALSE]

\* record_date >= cutoff_date
not_before(d, cutoff_date) ==
  d.day > cutoff_date.day \/ (d.day = cutoff_date.day /\ d.sec >= cutoff_date.sec)

\* the rows of the loop that reach the comparison with cutoff_date
is_parsed(record_, date_field) ==
  LET date_str == dict_get(record_, date_field, NoDate) IN
  /\ date_str.fmt \notin {"none", "int"}
  /\ parse_date(date_str).ok

\* _parse_and_filter_json_data: comparing a datetime that carries an offset
\* with cutoff_date raises TypeError, which the outer handler turns into []
parse_and_filter_json_data(json_data, date_field, cutoff_date) ==
  IF json_data.json # "list" THEN <<>>
  ELSE IF \E n \in 1..Len(json_data.rows) :
            /\ is_parsed(json_data.rows[n], date_field)
            /\ parse_date(json_data.rows[n][date_field]).aware
    THEN <<>>
  ELSE SelectSeq(json_data.rows,
                 LAMBDA record_ :
                   /\ is_parsed(record_, date_field)
                   /\ not_before(parse_date(record_[date_field]), cutoff_date))

\* nyc_data of the filtered data
nyc_data_of(compliance_input, cutoff_date) ==
  [c \in { WebhookCategories[n][1] : n \in 1..Len(WebhookCategories) } |->
     LET cat == CHOOSE n \in 1..Len(WebhookCategories) : WebhookCategories[n][1] = c
     IN parse_and_filter_json_data(
          dict_get(compliance_input, WebhookCategories[cat][2], JsonList(<<>>)),
          WebhookCategories[cat][3], cutoff_date)]

\* a relay that forwards the overall score along with the rows
prepare_filtered_data_with_score(compliance_input, cutoff_date) ==
  [address |-> dict_get(compliance_input, "address", NONE),
   overall_compliance_score |-> compliance_input["overall_compliance_score"],
   nyc_data |-> nyc_data_of(compliance_input, cutoff_date)]

\* _prepare_filtered_data
prepare_filtered_data(compliance_input, cutoff_date) ==
  [address |-> dict_get(compliance_input, "address", NONE),
   bin |-> dict_get(compliance_input, "bin", NONE),
   bbl |-> dict_get(compliance_input, "bbl", NONE),
   borough |-> dict_get(compliance_input, "borough", NONE),
   block |-> dict_get(compliance_input, "block", NONE),
   lot |-> dict_get(compliance_input, "lot", NONE),
   zip_code |-> dict_get(compliance_input, "zip_code", NONE),
   nyc_data |-> nyc_data_of(compliance_input, cutoff_date),
   data_collection_date |-> dict_get(compliance_input, "processed_at", NONE),
   data_sources |-> dict_get(compliance_input, "data_sources", NONE)]

\* the identifiers and metadata of a finished record
WebhookIdentity ==
  [address |-> "123 PARK AVE", bin |-> "1000001", bbl |-> "1001230045",
   borough |-> "MANHATTAN", block |-> "123", lot |-> "45", zip_code |-> "10001",
   processed_at |-> "2024-01-01T00:00:00",
   data_sources |-> "NYC_Open_Data,NYC_Planning_GeoSearch"]

\* the scores and counts of a finished record
WebhookScores ==
  { [hpd_violations_total |-> t, hpd_violations_active |-> t,
     hpd_compliance_score |-> 100 - 10 * t, overall_compliance_score |-> 100 - 3 * t] :
      t \in {0, 2} }

\* a finished record handed to send_compliance_data: category n holds the
\* JSON text j, the others the empty list
WebhookInput(n, s, j) ==
  WebhookIdentity @@ s @@ (WebhookCategories[n][2] :> j)
    @@ [k \in { WebhookCategories[m][2] : m \in 1..Len(WebhookCategories) }
          |-> JsonList(<<>>)]

\* send_compliance_data up to the POST, for the record and for a record that
\* differs from it in scores and counts only
send_compliance_data ==
  /\ pc = "send_compliance_data"
  /\ fetch' = [fetch EXCEPT
       !.filtered_data = prepare_filtered_data(record, cutoff_date_of(fetch.now)),
       !.filtered_other = prepare_filtered_data(fetch.other, cutoff_date_of(fetch.now))]
  /\ invoked' = <<"_prepare_filtered_data">>
  /\ pc' = "filtered"
  /\ UNCHANGED <<property_info, address, identifiers, compliance_data, calls, record>>

InitWebhook ==
  /\ pc = "send_compliance_data"
  /\ address = <<"123", "PARK", "AVE">>
  /\ identifiers = ScoredIdentifiers
  /\ compliance_data = [s \in Slots |-> EmptyList]
  /\ calls = <<>>
  /\ invoked = <<>>
  /\ property_info = [found |-> FALSE]
  /\ \E n \in 1..Len(WebhookCategories), s \in WebhookScores, now \in Nows :
       /\ \/ \E len \in 0..MaxWebhookRows :
               \E rows \in [1..len -> WebhookRows(WebhookCategories[n][3])] :
                 record = WebhookInput(n, s, JsonList(rows))
          \/ \E j \in JsonTexts : record = WebhookInput(n, s, j)
       /\ \E other \in WebhookScores \ {s} :
            fetch = [op |-> "webhook", now |-> now,
                     other |-> [k \in DOMAIN record |->
                                  IF k \in DOMAIN other THEN other[k] ELSE record[k]],
                     filtered_data |-> NONE, filtered_other |-> NONE]

NextWebhook == send_compliance_data

SpecWebhook == InitWebhook /\ [][NextWebhook]_vars

----------------------------------------------------------------------------
(* Properties of the category searchers *)

CallIdx == 1..Len(calls)
CallsBy(by) == { i \in CallIdx : calls[i].by = by }
SearcherCalls == { i \in CallIdx : IsSearcher(calls[i].by) }
InvokedSearchers == { Searchers[i] : i \in { j \in 1..Len(Searchers) :
                        \E m \in 1..Len(invoked) : invoked[m] = Searchers[j] } }

MultiStrategySearchers ==
  {"gather_hpd_violations", "gather_dob_violations", "gather_elevator_data",
   "gather_electrical_permits", "gather_certificate_of_occupancy"}

Rank(strat) == CASE strat = "bin" -> 1 [] strat = "block_lot" -> 2
                 [] strat = "address" -> 3

\* the first strategy of S after k whose guard holds, 0 if none
NextEligibleIn(S, k) ==
  LET later == { m \in (k + 1)..Len(S) : S[m].elig }
  IN IF later = {} THEN 0
     ELSE CHOOSE m \in later : \A n \in later : m <= n

\* the first strategy after k whose guard holds for the identifiers, 0 if none
NextEligible(by, k) == NextEligibleIn(StrategiesOf(by, identifiers), k)

\* C1: in every multi-strategy searcher, once a query returns at least one
\* row, the category's result is exactly those rows and the searcher issues no
\* query of a later strategy.
C1_FirstHitStops ==
  \A i \in CallIdx :
    (calls[i].by \in MultiStrategySearchers /\ calls[i].out = "rows")
      => /\ compliance_data[SlotOf(calls[i].by)] = calls[i].val
         /\ \A j \in CallsBy(calls[i].by) : j <= i

\* C1 witness: the block/lot search of gather_hpd_violations returned rows
\* after the BIN search came back empty
C1_Witness ==
  \E i, j \in CallsBy("gather_hpd_violations") :
    /\ calls[i].strat = "bin" /\ calls[i].out = "empty"
    /\ calls[j].strat = "block_lot" /\ calls[j].out = "rows"
    /\ pc = "gather_dob_violations"

\* C2: every searcher queries its strategies in the order building id, then
\* block/lot, then address; a query that returns 0 rows is followed by the
\* query of the next eligible strategy; and when every eligible strategy has
\* returned 0 rows the category's slot is the empty list.
C2_OrderedFallThrough ==
  \A by \in InvokedSearchers :
    LET S == StrategiesOf(by, identifiers)
        own == CallsBy(by)
    IN /\ \A i, j \in own :
            i < j => Rank(calls[i].strat) <= Rank(calls[j].strat)
       /\ \A i \in own :
            (calls[i].out = "empty" /\ NextEligibleIn(S, calls[i].k) # 0)
              => \E j \in own :
                   j > i /\ calls[j].k = NextEligibleIn(S, calls[i].k)
       /\ (\A k \in 1..Len(S) :
             S[k].elig => \E i \in own : calls[i].k = k /\ calls[i].out = "empty")
            => compliance_data[SlotOf(by)] = EmptyList

\* C2 witness: gather_dob_violations tried building id, block/lot and address,
\* each returned 0 rows, and the category ended empty
C2_Witness ==
  /\ \E i, j, m \in CallsBy("gather_dob_violations") :
       /\ i < j /\ j < m
       /\ calls[i].strat = "bin" /\ calls[j].strat = "block_lot"
       /\ calls[m].strat = "address"
       /\ calls[i].out = "empty" /\ calls[j].out = "empty"
       /\ calls[m].out = "empty"
  /\ compliance_data["dob_violations"] = EmptyList
  /\ pc = "gather_elevator_data"

\* C5: an error of the registry client during one strategy attempt (get_data
\* returning None after a request error, or raising) only fails that strategy:
\* the next eligible strategy is still queried, and a searcher whose every
\* attempt errored leaves its category empty.
C5_ErrorAdvances ==
  \A by \in InvokedSearchers :
    /\ \A i \in CallsBy(by) :
         (calls[i].out \in {"none", "raise"} /\ NextEligible(by, calls[i].k) # 0)
           => \E j \in CallsBy(by) :
                j > i /\ calls[j].k = NextEligible(by, calls[i].k)
    /\ (\A i \in CallsBy(by) : calls[i].out \in {"none", "raise"})
         => compliance_data[SlotOf(by)] = EmptyList

----------------------------------------------------------------------------
(* Properties of the pipeline *)

AfterGathering == pc \in {"create_compliance_record", "raised"}
                  \/ (pc = "returned" /\ identifiers.found)

\* C6: for a resolved property every one of the six searchers is invoked, in
\* whatever way the earlier ones ended; each category's slot holds exactly
\* the rows its own searcher's successful query returned, and is empty when
\* that searcher had no successful query.
C6_SearchersIndependent ==
  /\ AfterGathering => SelectSeq(invoked, IsSearcher) = Searchers
  /\ \A by \in InvokedSearchers :
       IF \E i \in CallsBy(by) : calls[i].out = "rows"
         THEN \E i \in CallsBy(by) :
                calls[i].out = "rows" /\ compliance_data[SlotOf(by)] = calls[i].val
         ELSE compliance_data[SlotOf(by)] = EmptyList

\* C6 witness: all six searchers ran, the occupancy-certificate searcher
\* failed on every attempt, and housing violations and boilers kept their rows
C6_Witness ==
  /\ AfterGathering
  /\ \E i \in CallsBy("gather_certificate_of_occupancy") : calls[i].out = "raise"
  /\ \E i \in CallsBy("gather_electrical_permits") : TRUE
  /\ compliance_data["hpd_violations"].kind = "frame"
  /\ compliance_data["boiler_inspections"].kind = "frame"
  /\ compliance_data["certificate_of_occupancy"] = EmptyList

Hundred(score) == score.n = 100 * score.d

\* C7: when the primary lookup and the fallback both fail, process_property
\* returns the record with null identifiers, zero counts, empty row data,
\* every score 100 and data_sources "FAILED", and no searcher query was made.
C7_FailedResolutionRecord ==
  (pc = "returned" /\ ~identifiers.found) =>
    /\ record.bin = NONE /\ record.bbl = NoneD /\ record.borough = NONE
    /\ record.block = NoneD /\ record.lot = NoneD /\ record.zip_code = NONE
    /\ record.hpd_violations_total = 0 /\ record.hpd_violations_active = 0
    /\ record.dob_violations_total = 0 /\ record.dob_violations_active = 0
    /\ record.elevator_devices_total = 0 /\ record.elevator_devices_active = 0
    /\ record.boiler_devices_total = 0
    /\ record.electrical_permits_total = 0
    /\ record.electrical_permits_active = 0
    /\ record.hpd_violations_data = <<>> /\ record.dob_violations_data = <<>>
    /\ record.elevator_data = <<>> /\ record.boiler_data = <<>>
    /\ record.electrical_data = <<>>
    /\ Hundred(record.hpd_compliance_score)
    /\ Hundred(record.dob_compliance_score)
    /\ Hundred(record.elevator_compliance_score)
    /\ Hundred(record.electrical_compliance_score)
    /\ Hundred(record.overall_compliance_score)
    /\ record.data_sources = "FAILED"
    /\ SearcherCalls = {}
    /\ InvokedSearchers = {}

\* C7 witness: the record returned after GeoSearch found nothing and the
\* fallback query failed with a request error
C7_Witness ==
  /\ pc = "returned" /\ ~identifiers.found
  /\ invoked = <<"geoclient.get_property_identifiers", "fallback_property_search">>
  /\ \E i \in CallsBy("fallback_property_search") : calls[i].out = "none"

\* C8: process_property always returns a record; no exception leaves the
\* pipeline.
C8_AlwaysReturns == pc # "raised"

\* C9: when the primary lookup fails and the fallback query returns at least
\* one row, resolution succeeds with the identifiers of that row and the
\* searchers run with them.
C9_FallbackResolves ==
  (\E i \in CallsBy("fallback_property_search") : calls[i].out = "rows")
    => /\ identifiers.found
       /\ identifiers.source = "hpd_fallback"
       /\ pc # "create_empty_record"
       /\ (pc = "returned" => record.data_sources # "FAILED")

\* C10: per request, resolution runs once and completes before any searcher
\* query: the primary lookup comes first, the fallback query is issued only
\* after the primary lookup failed, and every searcher query is built from
\* the identifiers resolution returned, which never change afterwards.
C10_ResolveOnceFirst ==
  /\ [](/\ Len(invoked) > 0 => invoked[1] = "geoclient.get_property_identifiers"
        /\ \A m \in 2..Len(invoked) :
             /\ invoked[m] # "geoclient.get_property_identifiers"
             /\ invoked[m] = "fallback_property_search" => m = 2
        /\ (identifiers.found /\ identifiers.source = "geosearch")
             => CallsBy("fallback_property_search") = {}
        /\ Cardinality(CallsBy("fallback_property_search")) <= 1
        /\ \A i \in SearcherCalls :
             /\ identifiers.found
             /\ calls[i].ids = identifiers
             /\ \A j \in CallsBy("fallback_property_search") : j < i)
  /\ [][identifiers.found => identifiers' = identifiers]_vars

\* C10 witness: a request resolved by the primary lookup whose searchers have
\* queried the registry
C10_Witness ==
  /\ identifiers.found /\ identifiers.source = "geosearch"
  /\ pc = "create_compliance_record"
  /\ \E i \in SearcherCalls : calls[i].strat = "block_lot"

----------------------------------------------------------------------------
(* Properties of AddressToSupabaseProcessor and the property finder *)

BuildingIdFields == {"bin", "bin_number", "buildingid"}

\* C3: a strategy whose identifier is missing is skipped: no building-id
\* query is issued by a category search when the building id is absent, and
\* no block/lot query when block or lot is absent.
C3_MissingIdentifierSkips ==
  \A i \in CallIdx :
    calls[i].by = "gather_compliance_data" =>
      /\ calls[i].strat = "bin" => Truthy(calls[i].ids.bin)
      /\ calls[i].strat = "block_lot" =>
           Truthy(calls[i].ids.block) /\ Truthy(calls[i].ids.lot)

\* C4: the boiler-inspection dataset is only ever queried by building id: no
\* component filters it on address or block/lot fields, and without a
\* building id it is not queried at all.
C4_BoilerOnlyByBuildingId ==
  \A i \in CallIdx :
    calls[i].dataset = "boiler_inspections" =>
      /\ calls[i].fields \subseteq BuildingIdFields
      /\ Truthy(calls[i].ids.bin)

----------------------------------------------------------------------------
(* Properties of the primary lookup *)

\* str.zfill(w) on a digit sequence
zfill(d, w) == IF Len(d) >= w THEN d ELSE [i \in 1..(w - Len(d)) |-> 0] \o d

\* int(s) succeeds with a non-negative value: a non-empty digit string
IsNonNegativeInteger(d) == d # NoneD /\ Len(d) > 0

\* C11: for every parcel id returned by the primary lookup, the exposed block
\* and lot are non-negative integers, and borough digit + block padded to 5
\* digits + lot padded to 4 digits is the original parcel id.
C11_ParcelRoundTrip ==
  pc = "identified" =>
    /\ IsNonNegativeInteger(identifiers.block)
    /\ IsNonNegativeInteger(identifiers.lot)
    /\ <<identifiers.bbl[1]>> \o zfill(identifiers.block, 5)
         \o zfill(identifiers.lot, 4) = identifiers.bbl

----------------------------------------------------------------------------
(* Properties of the scoring functions *)

ScoreFields ==
  {"hpd_compliance_score", "dob_compliance_score", "elevator_compliance_score",
   "electrical_compliance_score", "boiler_compliance_score",
   "overall_compliance_score"}

\* 0 <= n/d <= 100
InRange(score) == score.d > 0 /\ 0 <= score.n /\ score.n <= 100 * score.d

Scored(by) == pc = "scored" /\ invoked = <<by>>

\* C12: in every record produced by create_compliance_record,
\* create_empty_record or calculate_compliance_scores, every category score
\* and the overall score lies in [0, 100].
C12_ScoresInRange ==
  pc = "scored" =>
    \A f \in ScoreFields \cap DOMAIN record : InRange(record[f])

\* more open housing violations than the penalty can pay for, in either
\* processor
C12_Witness ==
  /\ Scored("structure_for_supabase")
  /\ record.hpd_violations_active = 11
  /\ record.hpd_compliance_score = Frac(0, 1)
  /\ record.dob_violations_active = 0

\* exact arithmetic on scores
FracEq(a, b) == a.n * b.d = b.n * a.d
FracAdd(a, b) == Frac(a.n * b.d + b.n * a.d, a.d * b.d)
FracScale(k, a) == Frac(k * a.n, a.d)
FracOver(a, k) == Frac(a.n, a.d * k)

\* (w1*s1 + w2*s2 + w3*s3 + w4*s4) / (w1 + w2 + w3 + w4)
WeightedMean(w, s) ==
  FracOver(FracAdd(FracAdd(FracScale(w[1], s[1]), FracScale(w[2], s[2])),
                   FracAdd(FracScale(w[3], s[3]), FracScale(w[4], s[4]))),
           w[1] + w[2] + w[3] + w[4])

\* C13: the overall score is the declared fixed-weight mean of the category
\* scores: weights 0.3 housing, 0.3 building, 0.2 elevator, 0.2 electrical in
\* ComprehensivePropertyComplianceSystem, 0.25 each over housing, building,
\* elevator, boiler in AddressToSupabaseProcessor, whichever categories are
\* empty.
C13_WeightedMean ==
  /\ (Scored("create_compliance_record") \/ Scored("create_empty_record")) =>
       FracEq(record.overall_compliance_score,
              WeightedMean(<<3, 3, 2, 2>>,
                           <<record.hpd_compliance_score, record.dob_compliance_score,
                             record.elevator_compliance_score,
                             record.electrical_compliance_score>>))
  /\ Scored("structure_for_supabase") =>
       FracEq(record.overall_compliance_score,
              WeightedMean(<<1, 1, 1, 1>>,
                           <<record.hpd_compliance_score, record.dob_compliance_score,
                             record.elevator_compliance_score,
                             record.boiler_compliance_score>>))

\* empty and non-empty categories side by side, with scores that tell the
\* weights apart
C13_Witness ==
  /\ Scored("create_compliance_record")
  /\ record.hpd_violations_total = 1 /\ record.hpd_violations_active = 1
  /\ record.dob_violations_total = 0
  /\ record.elevator_devices_total = 2 /\ record.elevator_devices_active = 1
  /\ record.electrical_permits_total = 1
  /\ record.electrical_compliance_score = Frac(70, 1)
  /\ FracEq(record.overall_compliance_score, Frac(81, 1))

\* C14: a category with no rows is scored a neutral 100, so a resolved
\* property whose every category search came back empty has every category
\* score 100 and overall score 100.
C14_AbsentCategoryNeutral ==
  (pc = "returned" /\ identifiers.found) =>
    /\ record.hpd_violations_total = 0 => Hundred(record.hpd_compliance_score)
    /\ record.dob_violations_total = 0 => Hundred(record.dob_compliance_score)
    /\ record.elevator_devices_total = 0 => Hundred(record.elevator_compliance_score)
    /\ record.electrical_permits_total = 0 =>
         Hundred(record.electrical_compliance_score)
    /\ (\A s \in Slots : ~HasRows(compliance_data[s])) =>
         Hundred(record.overall_compliance_score)

\* rows whose status marks them unresolved, read off the collected rows
HousingUnresolved(v) == RowGet(v, "violationstatus") # "Close"
BuildingUnresolved(v) == RowGet(v, "disposition_date") = NONE
Unresolved(slot, v) ==
  IF slot = "hpd_violations" THEN HousingUnresolved(v) ELSE BuildingUnresolved(v)
ActiveCount(slot) ==
  Cardinality({ i \in 1..Len(compliance_data[slot].rows) :
                  Unresolved(slot, compliance_data[slot].rows[i]) })

\* 100 if total = 0, else max(0, 100 - active * penalty)
ViolationScore(total, active, penalty) ==
  IF total = 0 THEN 100
  ELSE IF 100 - active * penalty < 0 THEN 0 ELSE 100 - active * penalty

CountWith(slot, field, value) ==
  Cardinality({ i \in 1..Len(compliance_data[slot].rows) :
                  RowGet(compliance_data[slot].rows[i], field) = value })

\* 100 if total = 0, else active / total * 100
EquipmentScore(total, active) ==
  IF total = 0 THEN Frac(100, 1) ELSE Frac(active * 100, total)

EndToEndRows ==
  /\ Len(compliance_data["hpd_violations"].rows) = 3
  /\ ActiveCount("hpd_violations") = 1
  /\ Len(compliance_data["dob_violations"].rows) = 2
  /\ ActiveCount("dob_violations") = 2
  /\ \A s \in DOMAIN compliance_data \ {"hpd_violations", "dob_violations"} :
       Len(compliance_data[s].rows) = 0

\* C17: with 3 housing rows (1 active) found by building id, 2 building rows
\* (both active) found by address after two empty strategies, and no
\* equipment rows, the record has housing score 90, building score 70, each
\* equipment score 100 and overall score 90.0.
C17_EndToEnd ==
  ((Scored("create_compliance_record") \/ Scored("structure_for_supabase"))
     /\ EndToEndRows) =>
    /\ record.hpd_compliance_score = Frac(90, 1)
    /\ record.dob_compliance_score = Frac(70, 1)
    /\ \A f \in (ScoreFields \cap DOMAIN record) \
                  {"hpd_compliance_score", "dob_compliance_score",
                   "overall_compliance_score"} : Hundred(record[f])
    /\ FracEq(record.overall_compliance_score, Frac(90, 1))

----------------------------------------------------------------------------
(* Properties of the assembled record *)

\* data_sources.split(',')
ListedSources(data_sources) ==
  CASE data_sources = "NYC_Open_Data,NYC_Planning_GeoSearch" ->
         {"NYC_Open_Data", "NYC_Planning_GeoSearch"}
    [] data_sources = "FAILED" -> {"FAILED"}
    [] OTHER -> {data_sources}

\* C18: data_sources lists the upstream sources that contributed to the
\* record: the geocoding service only when it resolved the identifiers, the
\* registry only when some of the record's data came from it, and the failure
\* marker exactly when identity resolution failed.
C18_ProvenanceContributed ==
  pc = "returned" =>
    LET listed == ListedSources(record.data_sources) IN
    /\ "FAILED" \in listed <=> ~identifiers.found
    /\ "NYC_Planning_GeoSearch" \in listed => identifiers.source = "geosearch"
    /\ "NYC_Open_Data" \in listed =>
         \/ identifiers.source # "geosearch"
         \/ \E s \in Slots : HasRows(compliance_data[s])

----------------------------------------------------------------------------
(* Properties of the registry client *)

\* the states in which the registry rejected the caller's filter
FilterRejected == pc \in {"got", "gathered"} /\ invoked[2] = "HTTPError 400"

\* C19: a query the registry rejects because its filter is malformed reaches
\* the caller as an error: get_data raises for it (it does not return the
\* None of a transport failure, nor an empty result), and a searcher does
\* not go on as if the strategy had returned no rows.
C19_MalformedPropagates ==
  FilterRejected => \A i \in CallIdx : calls[i].out = "raise"

\* the record fields a searched category is to be found under
CategoryFields(slot) ==
  CASE slot = "hpd_violations" ->
         [total |-> "hpd_violations_total", active |-> "hpd_violations_active",
          score |-> "hpd_compliance_score", data |-> "hpd_violations_data"]
    [] slot = "dob_violations" ->
         [total |-> "dob_violations_total", active |-> "dob_violations_active",
          score |-> "dob_compliance_score", data |-> "dob_violations_data"]
    [] slot = "elevator_inspections" ->
         [total |-> "elevator_devices_total", active |-> "elevator_devices_active",
          score |-> "elevator_compliance_score", data |-> "elevator_data"]
    [] slot = "boiler_inspections" ->
         [total |-> "boiler_devices_total", active |-> "boiler_devices_active",
          score |-> "boiler_compliance_score", data |-> "boiler_data"]
    [] slot = "electrical_permits" ->
         [total |-> "electrical_permits_total", active |-> "electrical_permits_active",
          score |-> "electrical_compliance_score", data |-> "electrical_data"]
    [] slot = "certificate_of_occupancy" ->
         [total |-> "certificate_of_occupancy_total",
          active |-> "certificate_of_occupancy_active",
          score |-> "certificate_of_occupancy_compliance_score",
          data |-> "certificate_of_occupancy_data"]

\* C20: for each of the six categories the aggregator searches, the
\* assembled ComplianceRecord carries the category's total and active counts,
\* its score and its raw rows; no searched category's rows are dropped.
C20_EveryCategoryCarried ==
  Scored("create_compliance_record") =>
    \A slot \in Slots :
      LET f == CategoryFields(slot) IN
      /\ {f.total, f.active, f.score, f.data} \subseteq DOMAIN record
      /\ record[f.total] = Len(compliance_data[slot].rows)
      /\ record[f.data] = compliance_data[slot].rows

----------------------------------------------------------------------------
(* Properties of process_address *)

\* C21: when the property cannot be resolved, process_address still returns
\* a complete compliance record (empty identifiers, every category empty,
\* neutral scores), not an error value.
C21_NotFoundRecord ==
  (pc = "returned" /\ ~property_info.found) =>
    /\ record.kind = "record"
    /\ ScoreFields \cap DOMAIN record # {}
    /\ \A f \in ScoreFields \cap DOMAIN record : Hundred(record[f])

----------------------------------------------------------------------------
(* Properties of pagination and retries *)

Returned(op) == pc = "returned" /\ fetch.op = op

\* C22: get_all_data with max_records = M retrieves at most M records in
\* total, for every batch_size and every dataset size.
C22_AtMostMaxRecords ==
  (Returned("get_all_data") /\ fetch.max_records # 0) =>
    Len(fetch.result) <= fetch.max_records

\* C27: when get_all_data returns with max_records unset, its result is the
\* complete dataset, every record exactly once and in order, from pages at
\* contiguous offsets, whatever the outcomes (success or request failure) of
\* the page requests.
C27_CompleteDataset ==
  (Returned("get_all_data") /\ fetch.max_records = 0) =>
    /\ fetch.result = [i \in 1..fetch.size |-> i]
    /\ \A k \in 1..Len(fetch.requests) :
         fetch.requests[k].offset = (k - 1) * fetch.batch_size

\* C23: robust_data_fetch calls get_data at most `retries` times, returns at
\* once with the first non-empty result, and otherwise returns an empty frame
\* without raising, whether the attempts came back empty, failed with a
\* request error, or raised an unexpected exception, after which no further
\* attempt is made.
C23_BoundedRetries ==
  fetch.op = "robust_data_fetch" =>
    /\ Len(calls) <= fetch.retries
    /\ \A i \in CallIdx : calls[i].out \in {"rows", "raise"} =>
         i = Len(calls) /\ pc = "returned"
    /\ pc = "returned" =>
         /\ fetch.result.kind = "frame"
         /\ IF \E i \in CallIdx : calls[i].out = "rows"
              THEN fetch.result = calls[Len(calls)].val
              ELSE /\ Len(fetch.result.rows) = 0
                   /\ (\A i \in CallIdx : calls[i].out # "raise") =>
                        Len(calls) = fetch.retries

\* an unexpected exception on the first of several attempts ends the fetch
C23_Witness ==
  /\ Returned("robust_data_fetch")
  /\ fetch.retries = 3
  /\ Len(calls) = 1
  /\ calls[1].out = "raise"
  /\ fetch.result = DataFrame(<<>>)

----------------------------------------------------------------------------
(* Properties of the searchers' queries *)

\* the number of strategies a searcher declares
DeclaredStrategies(by) ==
  CASE by \in {"gather_hpd_violations", "gather_dob_violations",
               "gather_elevator_data"} -> 3
    [] by \in {"gather_electrical_permits", "gather_certificate_of_occupancy"} -> 2
    [] by = "gather_boiler_data" -> 1

\* C24: each strategy attempt issues exactly one registry query, so a
\* searcher with n declared strategies issues at most n queries per request:
\* at most 3 for housing violations, building violations and elevators, 2 for
\* electrical permits and occupancy certificates, 1 for boilers.
C24_OneQueryPerStrategy ==
  \A j \in 1..Len(Searchers) :
    LET by == Searchers[j] IN
    /\ Cardinality(CallsBy(by)) <= DeclaredStrategies(by)
    /\ \A s \in {"bin", "block_lot", "address"} :
         Cardinality({ i \in CallsBy(by) : calls[i].strat = s }) <= 1

----------------------------------------------------------------------------
(* Properties of the searchers run in any order *)

\* the searcher that fills a slot
SearcherOfSlot(s) ==
  CASE s = "hpd_violations" -> "gather_hpd_violations"
    [] s = "dob_violations" -> "gather_dob_violations"
    [] s = "elevator_inspections" -> "gather_elevator_data"
    [] s = "boiler_inspections" -> "gather_boiler_data"
    [] s = "certificate_of_occupancy" -> "gather_certificate_of_occupancy"
    [] s = "electrical_permits" -> "gather_electrical_permits"

\* what each searcher collects when it runs alone, in the documented order
SequentialData ==
  [s \in {"hpd_violations", "dob_violations", "elevator_inspections",
          "boiler_inspections", "certificate_of_occupancy", "electrical_permits"} |->
     searcher_run(SearcherOfSlot(s), identifiers, fetch.world).data]

\* C25: the searchers share no mutable state: each gather_* writes only its
\* own slot of the collected data and leaves the identifiers and the other
\* slots unchanged, so for fixed registry responses the collected data and the
\* final record are the same for every order in which the searchers run.
C25_OrderIrrelevant ==
  /\ [](pc \in {"create_compliance_record", "returned", "raised"} =>
          /\ compliance_data = SequentialData
          /\ pc = "returned" =>
               record = create_compliance_record(identifiers, SequentialData))
  /\ [][\A s \in DOMAIN compliance_data :
          compliance_data'[s] # compliance_data[s] =>
            /\ SearcherOfSlot(s) \notin Done
            /\ invoked' = SelectSeq(Searchers,
                                    LAMBDA b : b \in Done \cup {SearcherOfSlot(s)})
            /\ identifiers' = identifiers]_vars

\* the boiler searcher has found rows before the housing searcher has run,
\* which later finds rows too
C25_Witness ==
  /\ pc = "gather_in_any_order"
  /\ "gather_boiler_data" \in Done
  /\ "gather_hpd_violations" \notin Done
  /\ HasRows(compliance_data["boiler_inspections"])
  /\ fetch.world["gather_hpd_violations"] = 1

----------------------------------------------------------------------------

RECURSIVE soql_outside(_, _, _), soql_inside(_, _, _, _)
\* the string literals of a filter expression as the registry reads them: a
\* single quote opens a literal, a doubled quote inside it is one quote
\* character, a single quote closes it; ok is FALSE when a literal never closes
soql_outside(w, i, lits) ==
  IF i > Len(w) THEN [ok |-> TRUE, lits |-> lits]
  ELSE IF w[i] = "'" THEN soql_inside(w, i + 1, <<>>, lits)
  ELSE soql_outside(w, i + 1, lits)

soql_inside(w, i, cur, lits) ==
  IF i > Len(w) THEN [ok |-> FALSE, lits |-> lits]
  ELSE IF w[i] = "'"
    THEN IF i + 1 <= Len(w) /\ w[i + 1] = "'"
           THEN soql_inside(w, i + 2, Append(cur, "'"), lits)
           ELSE soql_outside(w, i + 1, Append(lits, cur))
  ELSE soql_inside(w, i + 1, Append(cur, w[i]), lits)

\* C26: every value inserted as a literal into a filter expression is escaped
\* by the caller: for any input address, one with a single quote included,
\* the filter sent to the registry is well-formed and its literals are exactly
\* the intended field values.
C26_FilterLiteralsEscaped ==
  \A i \in 1..Len(calls) :
    LET read == soql_outside(calls[i].where, 1, <<>>) IN
    /\ read.ok
    /\ read.lits = calls[i].literals

----------------------------------------------------------------------------

\* C29: every dataset name that the identity resolver or a category searcher
\* passes to get_data is a key of the client's dataset table, so no query
\* ends in the 'Unknown dataset' error.
C29_DatasetsRegistered ==
  \A i \in 1..Len(calls) :
    /\ calls[i].dataset \in datasets
    /\ calls[i].out # "raise"

----------------------------------------------------------------------------

\* the record's fields for each category it counts: total, active count
\* (boilers have none) and serialized rows
CountFields ==
  { <<"hpd_violations", "hpd_violations_total", "hpd_violations_active",
      "hpd_violations_data">>,
    <<"dob_violations", "dob_violations_total", "dob_violations_active",
      "dob_violations_data">>,
    <<"elevator_inspections", "elevator_devices_total", "elevator_devices_active",
      "elevator_data">>,
    <<"boiler_inspections", "boiler_devices_total", "boiler_devices_total",
      "boiler_data">>,
    <<"electrical_permits", "electrical_permits_total", "electrical_permits_active",
      "electrical_data">> }

\* C30: in every record produced by create_compliance_record, for each
\* category the total count is the number of rows collected for it, the
\* serialized *_data list has exactly that many entries, and the active count
\* lies between 0 and the total.
C30_CountsMatchRows ==
  Scored("create_compliance_record") =>
    \A f \in CountFields :
      /\ record[f[2]] = Len(compliance_data[f[1]].rows)
      /\ Len(record[f[4]]) = record[f[2]]
      /\ 0 <= record[f[3]] /\ record[f[3]] <= record[f[2]]

\* three housing rows were collected, two with a missing description, one of
\* them open; an elevator row and two building rows were collected too
C30_Witness ==
  /\ Scored("create_compliance_record")
  /\ record.hpd_violations_total = 3
  /\ record.hpd_violations_active = 1
  /\ record.hpd_violations_data[1].novdescription = NONE
  /\ compliance_data["hpd_violations"].rows[1].novdescription = NaN
  /\ record.elevator_devices_total = 1
  /\ record.dob_violations_total = 2

----------------------------------------------------------------------------

\* the keys of a finished record that carry scores and counts
ScoreAndCountKeys ==
  {"hpd_violations_total", "hpd_violations_active", "hpd_compliance_score",
   "overall_compliance_score"}

\* the rows of a category in the record handed to the relay
InputRows(cat) ==
  IF record[cat[2]].json = "list" THEN record[cat[2]].rows ELSE <<>>

\* a date string that denotes a date, and the instant it denotes
DenotesDate(v) == v.fmt \in {"us", "iso", "iso_tz", "ymd"}

OlderThan(v, cutoff_date) ==
  v.day < cutoff_date.day \/ (v.day = cutoff_date.day /\ v.sec < cutoff_date.sec)

\* C28: _prepare_filtered_data removes the pre-calculated scores: two inputs
\* that agree on everything but scores and counts give identical filtered
\* data; and every forwarded row is a row of the input whose date field
\* parses and is not older than the two-year cutoff.
C28_RelayDropsScores ==
  pc = "filtered" =>
    /\ (\A k \in DOMAIN record \ ScoreAndCountKeys : record[k] = fetch.other[k])
         => fetch.filtered_data = fetch.filtered_other
    /\ \A n \in 1..Len(WebhookCategories) :
         LET cat == WebhookCategories[n]
             forwarded == fetch.filtered_data.nyc_data[cat[1]]
         IN \A m \in 1..Len(forwarded) :
              /\ \E i \in 1..Len(InputRows(cat)) : InputRows(cat)[i] = forwarded[m]
              /\ cat[3] \in DOMAIN forwarded[m]
              /\ DenotesDate(forwarded[m][cat[3]])
              /\ ~OlderThan(forwarded[m][cat[3]], cutoff_date_of(fetch.now))

\* the two records differ in their scores, and of two boiler rows the relay
\* forwarded the one on the cutoff and dropped the one before it
C28_Witness ==
  /\ pc = "filtered"
  /\ record.overall_compliance_score # fetch.other.overall_compliance_score
  /\ record.hpd_violations_total # fetch.other.hpd_violations_total
  /\ Len(record.boiler_data.rows) = 2
  /\ fetch.filtered_data.nyc_data["boiler_inspections"]
       = <<("inspection_date" :> DateValue("iso", 1, 1))>>
  /\ fetch.now = [day |-> 731, sec |-> 1]

====
